---- MODULE Spec2Model ----
(***************************************************************************)
(* Routing and delivery engine of ampcode-connector: the thread affinity   *)
(* map, the per-(pool, account) cooldown tracker, the router and the       *)
(* 429/401 retry engine of the HTTP server.  Times are milliseconds        *)
(* counted from the moment the process started.                            *)
(***************************************************************************)
EXTENDS Integers, Sequences, FiniteSets, TLC

VARIABLES
    now,            \* Date.now()
    ticks,          \* how many times the clock was advanced
    map,            \* AffinityStore.map     : <<threadId, ampProvider>> -> entry
    counts,         \* AffinityStore.counts  : <<pool, account>> -> number
    cleanupTimer,   \* AffinityStore.cleanupTimer is set
    nextSweep,      \* the time the interval timer is due next
    entries,        \* CooldownTracker.entries : <<pool, account>> -> entry
    store,          \* credentials table : <<providerName, account>> -> Credentials
    storeOps,       \* how many times the credentials table was written
    config,         \* config.providers  : configKey -> BOOLEAN
    focus,          \* the client provider the requests of this behaviour name
    hist,           \* per watched pair, the times of its latest 429s without Retry-After
    request,        \* the request handleProvider is serving, and where it stands
    last,           \* the last operation and what it returned
    loginLocks,     \* oauth.ts loginLocks : providerName -> the pending login
    logins,         \* the login() calls that have not settled yet
    tasks,          \* the callers of oauth.token and where each stands
    meter,          \* oauth scenarios: calls made, logins started, tokens issued
    call,           \* one request through the shared forward() and where it stands
    ring,           \* StatsRecorder: maxEntries, buffer, writeIndex, totalCount
    recorded,       \* every entry passed to StatsRecorder.record, in order
    text,           \* an SSE text and what parse / encode made of it
    ampModel,       \* a model name and what resolveModel made of it
    signin,         \* an interactive login() and where it stands
    probe,          \* one call of the Antigravity tryEndpoints and where it stands
    transcoder,     \* one Codex response stream through the reverse transcoder
    feed,           \* one chunked stream through the streaming SSE transform
    parked          \* a second request handler, suspended at an await

vars == <<now, ticks, map, counts, cleanupTimer, nextSweep, entries, store, storeOps,
          config, focus, hist, request, last, loginLocks, logins, tasks, meter, call,
          ring, recorded, text, ampModel, signin, probe, transcoder, feed, parked>>

\* The parts of the program next to the routing engine: token management, the
\* shared forward, the statistics ring, the SSE codec, the model names and
\* the interactive login.
oauthVars == <<loginLocks, logins, tasks, meter>>

statsVars == <<ring, recorded>>

beside == <<oauthVars, call, statsVars, text, ampModel, signin, probe, transcoder, feed, parked>>

\* The credentials table, the configuration and the scenario.
world == <<store, storeOps, config, focus, beside>>

\* ... and the request in flight.
env == <<world, request>>

\* The routing engine apart from the clock and the credentials table.
routing == <<map, counts, cleanupTimer, nextSweep, entries, storeOps, config, focus,
             hist, request, last>>

(***************************************************************************)
(* Bounds of the model.                                                    *)
(***************************************************************************)
\* The clock is advanced at most this many times in a behaviour.
MaxTicks == 2

\* The credentials table is written at most this many times in a behaviour.
MaxStoreOps == 1

\* Router and server scenarios: clock advances per behaviour (a sleep of the
\* retry engine not counted), and the consecutive 429s on record for a pair
\* up to which a further one is reported to the router.
MaxRouterTicks == 1

MaxRouter429 == 1

\* Server scenarios: requests served per behaviour.
MaxRequests == 3

\* record429 is not driven past this many consecutive 429s on one pair.
Max429 == 4

(***************************************************************************)
(* Maps with a changing key set (JavaScript Map).                          *)
(***************************************************************************)
EmptyMap == [x \in {} |-> 0]

MapHas(m, k) == k \in DOMAIN m

MapSet(m, k, v) == [x \in DOMAIN m \cup {k} |-> IF x = k THEN v ELSE m[x]]

MapDelete(m, k) == [x \in DOMAIN m \ {k} |-> m[x]]

\* The value of an expression computed once: the element of a singleton.
The(S) == CHOOSE x \in S : TRUE

\* The sum of f over the keys in S.
RECURSIVE SumOver(_, _)
SumOver(f, S) ==
    IF S = {} THEN 0
    ELSE LET x == CHOOSE y \in S : TRUE
         IN  f[x] + SumOver(f, S \ {x})

(***************************************************************************)
(* src/routing/affinity.ts                                                 *)
(***************************************************************************)
TTL_MS == 2 * 3600000

CLEANUP_INTERVAL_MS == 10 * 60000

NoEntry == [pool |-> "", account |-> 0, assignedAt |-> 0]

\* key(threadId, ampProvider): `${threadId}\0${ampProvider}`
key(threadId, ampProvider) == <<threadId, ampProvider>>

\* countKey(pool, account): `${pool}:${account}`
countKey(pool, account) == <<pool, account>>

\* An affinity store value is [map |-> ..., counts |-> ...].
incCount(c, pool, account) ==
    LET k == countKey(pool, account)
    IN  MapSet(c, k, (IF MapHas(c, k) THEN c[k] ELSE 0) + 1)

\* decCount with the deletion threshold off by one.
decCount_offByOne(c, pool, account) ==
    LET k == countKey(pool, account)
        v == (IF MapHas(c, k) THEN c[k] ELSE 0) - 1
    IN  IF v <= 1 THEN MapDelete(c, k) ELSE MapSet(c, k, v)

decCount(c, pool, account) ==
    LET k == countKey(pool, account)
        v == (IF MapHas(c, k) THEN c[k] ELSE 0) - 1
    IN  IF v <= 0 THEN MapDelete(c, k) ELSE MapSet(c, k, v)

\* removeExpired that forgets the count index.
removeExpired_noDec(a, k, entry) ==
    [map |-> MapDelete(a.map, k), counts |-> a.counts]

removeExpired(a, k, entry) ==
    [map |-> MapDelete(a.map, k),
     counts |-> decCount(a.counts, entry.pool, entry.account)]

\* The expiry test of peek and of the cleanup sweep.
isExpired(entry, t) == t - entry.assignedAt > TTL_MS

\* peek returns [found, entry, aff]: the entry (if any) and the store afterwards.
peek(a, threadId, ampProvider, t) ==
    LET k == key(threadId, ampProvider)
    IN  IF ~MapHas(a.map, k)
        THEN [found |-> FALSE, entry |-> NoEntry, aff |-> a]
        ELSE IF isExpired(a.map[k], t)
             THEN [found |-> FALSE, entry |-> NoEntry,
                   aff |-> removeExpired(a, k, a.map[k])]
             ELSE [found |-> TRUE, entry |-> a.map[k], aff |-> a]

\* get that returns what peek found without touching it.
get_noTouch(a, threadId, ampProvider, t) == peek(a, threadId, ampProvider, t)

\* get: peek, then touch the entry (entry.assignedAt = Date.now()).
get(a, threadId, ampProvider, t) ==
    LET r == peek(a, threadId, ampProvider, t)
        k == key(threadId, ampProvider)
        touched == [r.entry EXCEPT !.assignedAt = t]
    IN  IF r.found
        THEN [found |-> TRUE, entry |-> touched,
              aff |-> [r.aff EXCEPT !.map = MapSet(r.aff.map, k, touched)]]
        ELSE r

set(a, threadId, ampProvider, pool, account, t) ==
    LET k == key(threadId, ampProvider)
        c == IF MapHas(a.map, k)
             THEN IF a.map[k].pool # pool \/ a.map[k].account # account
                  THEN incCount(decCount(a.counts, a.map[k].pool, a.map[k].account),
                                pool, account)
                  ELSE a.counts
             ELSE incCount(a.counts, pool, account)
    IN  [map |-> MapSet(a.map, k, [pool |-> pool, account |-> account, assignedAt |-> t]),
         counts |-> c]

\* clear that deletes the entry and leaves the count index alone.
clear_noDec(a, threadId, ampProvider) ==
    [map |-> MapDelete(a.map, key(threadId, ampProvider)), counts |-> a.counts]

clear(a, threadId, ampProvider) ==
    LET k == key(threadId, ampProvider)
    IN  IF MapHas(a.map, k)
        THEN [map |-> MapDelete(a.map, k),
              counts |-> decCount(a.counts, a.map[k].pool, a.map[k].account)]
        ELSE a

activeCount(c, pool, account) ==
    IF MapHas(c, countKey(pool, account)) THEN c[countKey(pool, account)] ELSE 0

\* The body of the interval callback: remove every expired entry.
RECURSIVE sweepKeys(_, _, _)
sweepKeys(a, ks, t) ==
    IF ks = {} THEN a
    ELSE LET k == CHOOSE x \in ks : TRUE
             b == IF isExpired(a.map[k], t) THEN removeExpired(a, k, a.map[k]) ELSE a
         IN  sweepKeys(b, ks \ {k}, t)

sweep(a, t) == sweepKeys(a, DOMAIN a.map, t)

Aff == [map |-> map, counts |-> counts]

(***************************************************************************)
(* src/routing/cooldown.ts                                                 *)
(***************************************************************************)
FORBIDDEN_COOLDOWN_MS == 24 * 3600000

EXHAUSTED_COOLDOWN_MS == 2 * 3600000

EXHAUSTED_THRESHOLD_S == 300

EXHAUSTED_CONSECUTIVE == 3

DEFAULT_BURST_S == 30

\* retryAfterSeconds?: number -- <<>> is undefined, <<n>> is n seconds.
Undefined == <<>>

Seconds(n) == <<n>>

NoCooldown == [until |-> 0, exhausted |-> FALSE, consecutive429 |-> 0]

\* getEntry with the expiry test off by one (an entry at now = until is kept).
getEntry_lateExpiry(e, pool, account, t) ==
    LET k == <<pool, account>>
    IN  IF ~MapHas(e, k)
        THEN [found |-> FALSE, entry |-> NoCooldown, entries |-> e]
        ELSE IF t > e[k].until
             THEN [found |-> FALSE, entry |-> NoCooldown, entries |-> MapDelete(e, k)]
             ELSE [found |-> TRUE, entry |-> e[k], entries |-> e]

\* getEntry returns [found, entry, entries]: an expired entry is deleted on read.
getEntry(e, pool, account, t) ==
    LET k == <<pool, account>>
    IN  IF ~MapHas(e, k)
        THEN [found |-> FALSE, entry |-> NoCooldown, entries |-> e]
        ELSE IF t >= e[k].until
             THEN [found |-> FALSE, entry |-> NoCooldown, entries |-> MapDelete(e, k)]
             ELSE [found |-> TRUE, entry |-> e[k], entries |-> e]

\* isCoolingDown and isExhausted return [ret, entries].
isCoolingDown(e, pool, account, t) ==
    LET g == getEntry(e, pool, account, t)
    IN  [ret |-> g.found, entries |-> g.entries]

isExhausted(e, pool, account, t) ==
    LET g == getEntry(e, pool, account, t)
    IN  [ret |-> IF g.found THEN g.entry.exhausted ELSE FALSE, entries |-> g.entries]

\* record429 keyed by the credential: every pool of the account's credential
\* gets the entry.
record429_perCredential(e, pool, account, retryAfterSeconds, t) ==
    LET k == <<pool, account>>
        entry == IF MapHas(e, k) THEN e[k] ELSE NoCooldown
        n == entry.consecutive429 + 1
        retryAfter == IF retryAfterSeconds = Undefined THEN DEFAULT_BURST_S
                      ELSE retryAfterSeconds[1]
        written == IF retryAfter > EXHAUSTED_THRESHOLD_S \/ n >= EXHAUSTED_CONSECUTIVE
                   THEN [until |-> t + EXHAUSTED_COOLDOWN_MS, exhausted |-> TRUE,
                         consecutive429 |-> n]
                   ELSE [until |-> t + retryAfter * 1000, exhausted |-> entry.exhausted,
                         consecutive429 |-> n]
    IN  IF pool \in {"gemini", "antigravity"}
        THEN MapSet(MapSet(e, <<"gemini", account>>, written),
                    <<"antigravity", account>>, written)
        ELSE MapSet(e, k, written)

record429(e, pool, account, retryAfterSeconds, t) ==
    LET k == <<pool, account>>
        entry == IF MapHas(e, k) THEN e[k] ELSE NoCooldown
        n == entry.consecutive429 + 1
        retryAfter == IF retryAfterSeconds = Undefined THEN DEFAULT_BURST_S
                      ELSE retryAfterSeconds[1]
    IN  IF retryAfter > EXHAUSTED_THRESHOLD_S \/ n >= EXHAUSTED_CONSECUTIVE
        THEN MapSet(e, k, [until |-> t + EXHAUSTED_COOLDOWN_MS, exhausted |-> TRUE,
                           consecutive429 |-> n])
        ELSE MapSet(e, k, [until |-> t + retryAfter * 1000, exhausted |-> entry.exhausted,
                           consecutive429 |-> n])

record403(e, pool, account, t) ==
    MapSet(e, <<pool, account>>,
           [until |-> t + FORBIDDEN_COOLDOWN_MS, exhausted |-> TRUE, consecutive429 |-> 0])

recordSuccess(e, pool, account) == MapDelete(e, <<pool, account>>)

\* Retry-After header: none, a number, an HTTP-date (ms), or anything else.
NoHeader == [kind |-> "none", val |-> 0]

parseRetryAfter(header, t) ==
    IF header.kind = "num" THEN Seconds(header.val)
    ELSE IF header.kind = "date"
         THEN LET diff == header.val - t
                  ceil == IF diff <= 0 THEN 0 ELSE (diff + 999) \div 1000
              IN  Seconds(ceil)
         ELSE Undefined

(***************************************************************************)
(* src/config/config.ts: which providers are enabled.                      *)
(***************************************************************************)
AllEnabled == [anthropic |-> TRUE, codex |-> TRUE, google |-> TRUE]

(***************************************************************************)
(* src/auth/store.ts: the reads the router makes.                          *)
(***************************************************************************)
Accounts == 0 .. 1

NoCredentials == [refreshToken |-> ""]

\* The account numbers of a set, ascending (ORDER BY account).
RECURSIVE Ascending(_)
Ascending(S) ==
    IF S = {} THEN <<>>
    ELSE LET m == CHOOSE x \in S : \A y \in S : x <= y
         IN  <<m>> \o Ascending(S \ {m})

\* getAll(provider): the rows of a provider as [account, credentials], by account.
getAll(st, provider) ==
    The({[i \in 1 .. Len(accs) |->
             [account |-> accs[i], credentials |-> st[<<provider, accs[i]>>]]] :
         accs \in {Ascending({k[2] : k \in {x \in DOMAIN st : x[1] = provider}})}})

\* get(provider, account)?.refreshToken is a non-empty string.
hasRefreshToken(st, provider, account) ==
    MapHas(st, <<provider, account>>) /\ st[<<provider, account>>].refreshToken # ""

\* exists(provider): some stored credential of the provider has a refresh token.
exists(st, provider) ==
    \E all \in {getAll(st, provider)} :
        \E i \in 1 .. Len(all) : all[i].credentials.refreshToken # ""

(***************************************************************************)
(* The adapters' isAvailable(account).                                     *)
(***************************************************************************)
\* anthropic: () => oauth.ready(config), whatever account is asked for.
\* codex, gemini, antigravity: !!store.get(name, account)?.refreshToken.
isAvailable(st, pool, account) ==
    IF pool = "anthropic" THEN exists(st, "anthropic")
    ELSE IF pool = "codex" THEN hasRefreshToken(st, "codex", account)
    ELSE hasRefreshToken(st, "google", account)

(***************************************************************************)
(* src/routing/router.ts                                                   *)
(***************************************************************************)
NoRegistration == [configKey |-> "", entries |-> <<>>]

PROVIDER_REGISTRY(ampProvider) ==
    IF ampProvider = "anthropic"
    THEN [configKey |-> "anthropic",
          entries |-> <<[pool |-> "anthropic", credentialName |-> "anthropic"]>>]
    ELSE IF ampProvider = "openai"
    THEN [configKey |-> "codex",
          entries |-> <<[pool |-> "codex", credentialName |-> "codex"]>>]
    ELSE IF ampProvider = "google"
    THEN [configKey |-> "google",
          entries |-> <<[pool |-> "gemini", credentialName |-> "google"],
                        [pool |-> "antigravity", credentialName |-> "google"]>>]
    ELSE NoRegistration

\* The credentials a pool draws on (ProviderEntry.credentialName).
credentialName(pool) ==
    IF pool = "anthropic" THEN "anthropic"
    ELSE IF pool = "codex" THEN "codex"
    ELSE "google"

\* addAccountCandidates: the accounts of a provider that have a refresh token.
addAccountCandidates(st, pool, providerName) ==
    The({[i \in 1 .. Len(kept) |-> [pool |-> pool, account |-> kept[i].account]] :
         kept \in {SelectSeq(getAll(st, providerName),
                             LAMBDA r : r.credentials.refreshToken # "")}})

RECURSIVE candidatesOf(_, _, _)
candidatesOf(st, regEntries, i) ==
    IF i > Len(regEntries) THEN <<>>
    ELSE addAccountCandidates(st, regEntries[i].pool, regEntries[i].credentialName)
         \o candidatesOf(st, regEntries, i + 1)

buildCandidates(st, cfg, ampProvider) ==
    The({IF reg = NoRegistration \/ ~cfg[reg.configKey] THEN <<>>
         ELSE candidatesOf(st, reg.entries, 1) :
         reg \in {PROVIDER_REGISTRY(ampProvider)}})

\* The cooldown map after isCoolingDown was read for candidates i .. Len.
RECURSIVE afterReads(_, _, _, _)
afterReads(e, candidates, i, t) ==
    IF i > Len(candidates) THEN e
    ELSE afterReads(isCoolingDown(e, candidates[i].pool, candidates[i].account, t).entries,
                    candidates, i + 1, t)

\* pickCandidate without its cooldown filter.
availableOf_unfiltered(e, candidates, t) == candidates

\* candidates.filter((c) => !cooldown.isCoolingDown(c.pool, c.account))
availableOf(e, candidates, t) ==
    SelectSeq(candidates, LAMBDA c : ~isCoolingDown(e, c.pool, c.account, t).ret)

\* The least-connections loop over available[i ..], best so far given.
RECURSIVE leastLoaded(_, _, _, _)
leastLoaded(available, i, best, c) ==
    IF i > Len(available) THEN best
    ELSE IF activeCount(c, available[i].pool, available[i].account)
            < activeCount(c, best.pool, best.account)
         THEN leastLoaded(available, i + 1, available[i], c)
         ELSE leastLoaded(available, i + 1, best, c)

NoCandidate == [pool |-> "null", account |-> 0]

\* pickCandidate with the comparison inverted: it keeps the most loaded one.
RECURSIVE mostLoaded(_, _, _, _)
mostLoaded(available, i, best, c) ==
    IF i > Len(available) THEN best
    ELSE IF activeCount(c, available[i].pool, available[i].account)
            > activeCount(c, best.pool, best.account)
         THEN mostLoaded(available, i + 1, available[i], c)
         ELSE mostLoaded(available, i + 1, best, c)

pickCandidate_mostLoaded(candidates, e, c, t) ==
    The({[found |-> Len(available) > 0,
          cand |-> IF Len(available) = 0 THEN NoCandidate
                   ELSE mostLoaded(available, 2, available[1], c),
          entries |-> afterReads(e, candidates, 1, t)] :
         available \in {availableOf(e, candidates, t)}})

\* pickCandidate returns [found, cand, entries].
pickCandidate(candidates, e, c, t) ==
    The({[found |-> Len(available) > 0,
          cand |-> IF Len(available) = 0 THEN NoCandidate
                   ELSE leastLoaded(available, 2, available[1], c),
          entries |-> afterReads(e, candidates, 1, t)] :
         available \in {availableOf(e, candidates, t)}})

\* result(handler, provider, model, account, pool); a handler is named by its pool.
result(handler, account, pool) == [handler |-> handler, account |-> account, pool |-> pool]

\* routeRequest from "Build candidate list" on: build, pick, pin.  Returns
\* [res, aff, entries, pin, seen]: pin is the branch the affinity check took
\* before, seen the counts and the cooldown map the selection read.
selectAndPin(a, e, st, cfg, ampProvider, threadId, branch, t) ==
    The({IF Len(candidates) = 0
         THEN [res |-> result("null", 0, "null"), aff |-> a, entries |-> e,
               pin |-> branch, seen |-> [counts |-> a.counts, entries |-> e]]
         ELSE The({IF ~picked.found
                   THEN [res |-> result("null", 0, "null"), aff |-> a,
                         entries |-> picked.entries, pin |-> branch,
                         seen |-> [counts |-> a.counts, entries |-> e]]
                   ELSE [res |-> result(picked.cand.pool, picked.cand.account,
                                        picked.cand.pool),
                         aff |-> IF threadId # ""
                                 THEN set(a, threadId, ampProvider, picked.cand.pool,
                                          picked.cand.account, t)
                                 ELSE a,
                         entries |-> picked.entries, pin |-> branch,
                         seen |-> [counts |-> a.counts, entries |-> e]] :
                   picked \in {pickCandidate(candidates, e, a.counts, t)}}) :
         candidates \in {buildCandidates(st, cfg, ampProvider)}})

\* routeRequest without its affinity branch: a pin is dropped, never returned.
routeRequest_ignorePin(a, e, st, cfg, ampProvider, threadId, t) ==
    IF threadId = "" THEN selectAndPin(a, e, st, cfg, ampProvider, threadId, "none", t)
    ELSE The({selectAndPin(a1, e, st, cfg, ampProvider, threadId, "none", t) :
              a1 \in {clear(a, threadId, ampProvider)}})

\* The affinity check of routeRequest for a thread whose pin get() returned:
\* pinned is the pin, a the affinity store after get().
routePinned(pinned, a, e, st, cfg, ampProvider, threadId, t) ==
    The({IF ex.ret
         THEN selectAndPin(cleared, ex.entries, st, cfg, ampProvider, threadId,
                           "exhausted", t)
         ELSE IF ~isAvailable(st, pinned.pool, pinned.account)
         THEN selectAndPin(cleared, ex.entries, st, cfg, ampProvider, threadId,
                           "unavailable", t)
         ELSE The({IF cd.ret
                   THEN selectAndPin(cleared, cd.entries, st, cfg, ampProvider, threadId,
                                     "cooling", t)
                   ELSE [res |-> result(pinned.pool, pinned.account, pinned.pool),
                         aff |-> a, entries |-> cd.entries, pin |-> "returned",
                         seen |-> [counts |-> a.counts, entries |-> cd.entries]] :
                   cd \in {isCoolingDown(ex.entries, pinned.pool, pinned.account, t)}}) :
         ex \in {isExhausted(e, pinned.pool, pinned.account, t)},
         cleared \in {clear(a, threadId, ampProvider)}})

\* routeRequest returns [res, aff, entries, pin, seen].
routeRequest(a, e, st, cfg, ampProvider, threadId, t) ==
    IF threadId = "" THEN selectAndPin(a, e, st, cfg, ampProvider, threadId, "none", t)
    ELSE The({IF g.found
              THEN routePinned(g.entry, g.aff, e, st, cfg, ampProvider, threadId, t)
              ELSE selectAndPin(g.aff, e, st, cfg, ampProvider, threadId, "none", t) :
              g \in {get(a, threadId, ampProvider, t)}})

\* rerouteAfter429 from buildCandidates on, the 429 recorded and a pin on an
\* exhausted pair cleared.
reroutePick(a, e, st, cfg, ampProvider, threadId, t) ==
    The({IF ~picked.found
         THEN [found |-> FALSE, res |-> result("null", 0, "null"), aff |-> a,
               entries |-> picked.entries, seen |-> [counts |-> a.counts, entries |-> e]]
         ELSE [found |-> TRUE,
               res |-> result(picked.cand.pool, picked.cand.account, picked.cand.pool),
               aff |-> IF threadId # ""
                       THEN set(a, threadId, ampProvider, picked.cand.pool,
                                picked.cand.account, t)
                       ELSE a,
               entries |-> picked.entries,
               seen |-> [counts |-> a.counts, entries |-> e]] :
         picked \in {The({pickCandidate(candidates, e, a.counts, t) :
                          candidates \in {buildCandidates(st, cfg, ampProvider)}})}})

\* rerouteAfter429 returns [found, res, aff, entries, seen]; found = FALSE is null.
rerouteAfter429(a, e, st, cfg, ampProvider, failedPool, failedAccount, retryAfterSeconds, threadId, t) ==
    IF threadId = ""
    THEN The({reroutePick(a, e1, st, cfg, ampProvider, threadId, t) :
              e1 \in {record429(e, failedPool, failedAccount, retryAfterSeconds, t)}})
    ELSE The({IF ex.ret
              THEN The({reroutePick(a1, ex.entries, st, cfg, ampProvider, threadId, t) :
                        a1 \in {clear(a, threadId, ampProvider)}})
              ELSE reroutePick(a, ex.entries, st, cfg, ampProvider, threadId, t) :
              ex \in {The({isExhausted(e1, failedPool, failedAccount, t) :
                           e1 \in {record429(e, failedPool, failedAccount,
                                             retryAfterSeconds, t)}})}})

(***************************************************************************)
(* The parts next to the routing engine, as they are before anything uses  *)
(* them.                                                                   *)
(***************************************************************************)
\* The callers of oauth.token: two request tasks and the refresh timer.
OaRequests == {"rq1", "rq2"}

OaTasks == OaRequests \cup {"sweep"}

\* A caller: where it stands (pc), the (provider, account) it asked a token
\* for, the refresh token it read (creds.refreshToken), the login it awaits,
\* when its sleep ends, what token() returned, and for refreshAll its `now`,
\* the provider it has reached and the rows of that provider still to visit.
NoTask ==
    [pc |-> "idle", provider |-> "", account |-> 0, refreshToken |-> "", promise |-> 0,
     wake |-> 0, ret |-> "none", at |-> 0, pidx |-> 0, rows |-> <<>>, tries |-> 0]

NoMeter == [calls |-> 0, serial |-> 0, issued |-> 0, nextRefresh |-> 0]

OAuthAtRest ==
    /\ loginLocks = EmptyMap
    /\ logins = {}
    /\ tasks = [t \in OaTasks |-> NoTask]
    /\ meter = NoMeter

\* A request on its way through forward(): where it stands (pc), which
\* forward call of the request this is (1 the first, 2 the one after the
\* cache-preserve wait), the loop variable, the fetches of this call and of
\* the request, what the fetches of this call brought, when the sleep ends,
\* whether the client hung up (and how many fetches had gone out by then),
\* how the call ended, the response, and the requests seen / failed so far.
NoCall ==
    [pc |-> "idle", round |-> 0, attempt |-> 0, fetches |-> 0, total |-> 0, log |-> <<>>,
     wake |-> 0, cancelled |-> "no", before |-> 0, outcome |-> "none", status |-> 0,
     body |-> "none", served |-> 0, failed |-> 0]

NoRing == [maxEntries |-> 0, buffer |-> <<>>, writeIndex |-> 0, totalCount |-> 0]

NoText == [raw |-> <<>>, pc |-> "none", chunks |-> <<>>, encoded |-> <<>>, again |-> <<>>]

NoModel == [name |-> <<>>, pc |-> "none", once |-> <<>>, twice |-> <<>>]

\* A login(): where it stands, the state it generated, the token exchanges it
\* made, the page its callback server answered last, how it ended and the
\* account it saved under; started counts the logins so far.
NoSignin ==
    [pc |-> "idle", state |-> "", exchanges |-> 0, reply |-> "none", outcome |-> "none",
     account |-> -1, started |-> 0]

\* A call of tryEndpoints: where it stands, the position in endpoints of the
\* next one to contact, the endpoints contacted so far with what came of
\* each, and the status of the response it returned; calls counts the calls
\* so far.
NoProbe ==
    [pc |-> "idle", next |-> 1, contacted |-> <<>>, status |-> 0, calls |-> 0]

\* A stream through transformCodexResponse: the TransformState, the data of
\* the upstream records so far and the records enqueued downstream.
NoTranscoder ==
    [pc |-> "idle", state |-> <<>>, fed |-> <<>>, out |-> <<>>]

\* A stream through transform(): the whole input, the part not yet
\* delivered, the buffer, the records enqueued and the chunks delivered.
NoFeed ==
    [pc |-> "idle", whole |-> <<>>, rest |-> <<>>, buffer |-> <<>>, out |-> <<>>,
     chunks |-> 0]

(***************************************************************************)
(* The clock.                                                              *)
(***************************************************************************)
\* last: the latest call under observation and what it returned, NoOp when
\* something else happened since.  For a routing decision:
\* the thread it was made for, handler/pool/account of the RouteResult
\* ("null" for null) and the branch the pin check took.
NoOp ==
    [op |-> "none", thread |-> "", handler |-> "null", pool |-> "null", account |-> 0,
     found |-> FALSE, pin |-> "none"]

\* request: where handleProvider stands (pc), the thread and the body of the
\* request, the route in use, the Retry-After header of the first 429, the reroute
\* attempt, the adapter calls made, the answers received, what the state was
\* when the request arrived, and what was delivered or sent upstream.
NoBody == [raw |-> "", forwardBody |-> ""]

NoRequest ==
    [pc |-> "idle", thread |-> "", body |-> NoBody, pool |-> "null", account |-> 0,
     header |-> NoHeader, attempt |-> 0, calls |-> 0, wake |-> 0, log |-> <<>>,
     pre |-> [calm |-> FALSE, equal |-> FALSE, pinned |-> <<>>],
     status |-> 0, via |-> "none", sent |-> "none", served |-> 0]

AtRest ==
    /\ OAuthAtRest
    /\ call = NoCall
    /\ ring = NoRing
    /\ recorded = <<>>
    /\ text = NoText
    /\ ampModel = NoModel
    /\ signin = NoSignin
    /\ probe = NoProbe
    /\ transcoder = NoTranscoder
    /\ feed = NoFeed
    /\ parked = NoRequest

Op(name, found) == [NoOp EXCEPT !.op = name, !.found = found]

Tick(d) ==
    /\ ticks < MaxTicks
    /\ now' = now + d
    /\ ticks' = ticks + 1
    /\ last' = NoOp
    /\ UNCHANGED <<map, counts, cleanupTimer, nextSweep, entries, hist, env>>

(***************************************************************************)
(* The affinity store driven directly through its public methods.          *)
(***************************************************************************)
AffThreads == {"T1", "T2"}

AffProviders == {"google"}

AffPairs == {<<"gemini", 0>>, <<"antigravity", 0>>, <<"gemini", 1>>}

AffDeltas == {1, TTL_MS}

AffPeek(threadId, ampProvider) ==
    LET r == peek(Aff, threadId, ampProvider, now)
    IN  /\ map' = r.aff.map
        /\ counts' = r.aff.counts
        /\ last' = Op("peek", r.found)
        /\ UNCHANGED <<now, ticks, cleanupTimer, nextSweep, entries, hist, env>>

AffGet(threadId, ampProvider) ==
    LET r == get(Aff, threadId, ampProvider, now)
    IN  /\ map' = r.aff.map
        /\ counts' = r.aff.counts
        /\ last' = Op("get", r.found)
        /\ UNCHANGED <<now, ticks, cleanupTimer, nextSweep, entries, hist, env>>

AffSet(threadId, ampProvider, pool, account) ==
    LET a == set(Aff, threadId, ampProvider, pool, account, now)
    IN  /\ map' = a.map
        /\ counts' = a.counts
        /\ last' = Op("set", FALSE)
        /\ UNCHANGED <<now, ticks, cleanupTimer, nextSweep, entries, hist, env>>

AffClear(threadId, ampProvider) ==
    LET a == clear(Aff, threadId, ampProvider)
    IN  /\ map' = a.map
        /\ counts' = a.counts
        /\ last' = [NoOp EXCEPT !.op = "clear"]
        /\ UNCHANGED <<now, ticks, cleanupTimer, nextSweep, entries, hist, env>>

\* startCleanup(): arm the interval timer once.
StartCleanup ==
    /\ ~cleanupTimer
    /\ cleanupTimer' = TRUE
    /\ nextSweep' = now + CLEANUP_INTERVAL_MS
    /\ last' = [NoOp EXCEPT !.op = "startCleanup"]
    /\ UNCHANGED <<now, ticks, map, counts, entries, hist, env>>

\* The interval callback runs no earlier than it is due.
CleanupSweep ==
    /\ cleanupTimer
    /\ now >= nextSweep
    /\ LET a == sweep(Aff, now)
       IN  /\ map' = a.map
           /\ counts' = a.counts
    /\ nextSweep' = now + CLEANUP_INTERVAL_MS
    /\ last' = [NoOp EXCEPT !.op = "sweep"]
    /\ UNCHANGED <<now, ticks, cleanupTimer, entries, hist, env>>

InitCommon ==
    /\ now = 0
    /\ ticks = 0
    /\ map = EmptyMap
    /\ counts = EmptyMap
    /\ cleanupTimer = FALSE
    /\ nextSweep = 0
    /\ entries = EmptyMap
    /\ hist = EmptyMap
    /\ store = EmptyMap
    /\ storeOps = 0
    /\ config = AllEnabled
    /\ focus = ""
    /\ request = NoRequest
    /\ last = NoOp
    /\ AtRest

AffinityNext ==
    \/ \E t \in AffThreads, p \in AffProviders : AffPeek(t, p)
    \/ \E t \in AffThreads, p \in AffProviders : AffGet(t, p)
    \/ \E t \in AffThreads, p \in AffProviders, pa \in AffPairs : AffSet(t, p, pa[1], pa[2])
    \/ \E t \in AffThreads, p \in AffProviders : AffClear(t, p)
    \/ StartCleanup
    \/ CleanupSweep
    \/ \E d \in AffDeltas : Tick(d)

SpecAffinity == InitCommon /\ [][AffinityNext]_vars

(***************************************************************************)
(* The cooldown tracker driven directly through its public methods.        *)
(***************************************************************************)
CdPairs == {<<"codex", 0>>, <<"codex", 1>>}

CdRetryAfter == {Undefined, Seconds(3), Seconds(301)}

CdDeltas == {DEFAULT_BURST_S * 1000, EXHAUSTED_COOLDOWN_MS}

Count429(e, pa) == IF MapHas(e, pa) THEN e[pa].consecutive429 ELSE 0

\* The history of the watched pairs (those hist had from the start).
HistSet(pa, h) == IF MapHas(hist, pa) THEN MapSet(hist, pa, h) ELSE hist

\* The latest three entries of a sequence of times, with t appended.
Latest3(h, t) ==
    LET s == Append(h, t)
    IN  IF Len(s) > 3 THEN SubSeq(s, Len(s) - 2, Len(s)) ELSE s

CdIsCoolingDown(pool, account) ==
    LET r == isCoolingDown(entries, pool, account, now)
    IN  /\ entries' = r.entries
        /\ last' = Op("isCoolingDown", r.ret)
        /\ UNCHANGED <<now, ticks, map, counts, cleanupTimer, nextSweep, hist, env>>

CdIsExhausted(pool, account) ==
    LET r == isExhausted(entries, pool, account, now)
    IN  /\ entries' = r.entries
        /\ last' = Op("isExhausted", r.ret)
        /\ UNCHANGED <<now, ticks, map, counts, cleanupTimer, nextSweep, hist, env>>

CdRecord429(pool, account, retryAfterSeconds) ==
    /\ Count429(entries, <<pool, account>>) < Max429
    /\ entries' = record429(entries, pool, account, retryAfterSeconds, now)
    /\ hist' = IF MapHas(hist, <<pool, account>>) /\ retryAfterSeconds = Undefined
               THEN MapSet(hist, <<pool, account>>, Latest3(hist[<<pool, account>>], now))
               ELSE HistSet(<<pool, account>>, <<>>)
    /\ last' = Op("record429", FALSE)
    /\ UNCHANGED <<now, ticks, map, counts, cleanupTimer, nextSweep, env>>

CdRecord403(pool, account) ==
    /\ entries' = record403(entries, pool, account, now)
    /\ hist' = HistSet(<<pool, account>>, <<>>)
    /\ last' = Op("record403", FALSE)
    /\ UNCHANGED <<now, ticks, map, counts, cleanupTimer, nextSweep, env>>

CdRecordSuccess(pool, account) ==
    /\ entries' = recordSuccess(entries, pool, account)
    /\ hist' = HistSet(<<pool, account>>, <<>>)
    /\ last' = NoOp
    /\ UNCHANGED <<now, ticks, map, counts, cleanupTimer, nextSweep, env>>

CooldownNext ==
    \/ \E pa \in CdPairs : CdIsCoolingDown(pa[1], pa[2])
    \/ \E pa \in CdPairs : CdIsExhausted(pa[1], pa[2])
    \/ \E pa \in CdPairs, ra \in CdRetryAfter : CdRecord429(pa[1], pa[2], ra)
    \/ \E pa \in CdPairs : CdRecord403(pa[1], pa[2])
    \/ \E pa \in CdPairs : CdRecordSuccess(pa[1], pa[2])
    \/ \E d \in CdDeltas : Tick(d)

SpecCooldown == InitCommon /\ [][CooldownNext]_vars

(***************************************************************************)
(* One pair under repeated 429s without Retry-After, with its history.     *)
(***************************************************************************)
EscPair == <<"codex", 0>>

EscDeltas == {1, DEFAULT_BURST_S * 1000, EXHAUSTED_COOLDOWN_MS}

InitEscalation ==
    /\ now = 0
    /\ ticks = 0
    /\ map = EmptyMap
    /\ counts = EmptyMap
    /\ cleanupTimer = FALSE
    /\ nextSweep = 0
    /\ entries = EmptyMap
    /\ hist = [pa \in {EscPair} |-> <<>>]
    /\ store = EmptyMap
    /\ storeOps = 0
    /\ config = AllEnabled
    /\ focus = ""
    /\ request = NoRequest
    /\ last = NoOp
    /\ AtRest

EscalationNext ==
    \/ CdIsCoolingDown(EscPair[1], EscPair[2])
    \/ CdIsExhausted(EscPair[1], EscPair[2])
    \/ \E ra \in {Undefined, Seconds(3)} : CdRecord429(EscPair[1], EscPair[2], ra)
    \/ CdRecordSuccess(EscPair[1], EscPair[2])
    \/ \E d \in EscDeltas : Tick(d)

SpecEscalation == InitEscalation /\ [][EscalationNext]_vars

(***************************************************************************)
(* The router driven through its exported functions, with the credentials  *)
(* table changing underneath it (login, logout, token refresh).            *)
(***************************************************************************)
RtProviders == {"anthropic", "openai", "google", "xai"}

RtThreads == {"", "T1", "T2"}

RtRetryAfter == {Undefined, Seconds(301)}

RtDeltas == {DEFAULT_BURST_S * 1000, TTL_MS + 1}

AllDisabled == [anthropic |-> FALSE, codex |-> FALSE, google |-> FALSE]

\* The pools registered for a client provider, and their (pool, account) pairs.
PoolsOf(ampProvider) ==
    {PROVIDER_REGISTRY(ampProvider).entries[i].pool :
        i \in 1 .. Len(PROVIDER_REGISTRY(ampProvider).entries)}

PairsOf(ampProvider) == PoolsOf(ampProvider) \X Accounts

CredentialNamesOf(ampProvider) == {credentialName(pool) : pool \in PoolsOf(ampProvider)}

\* The credentials stored when the server starts: two accounts of Anthropic
\* and of Codex, one Google account (which serves two pools).
InitialRows(ampProvider) ==
    IF ampProvider = "google" THEN {<<"google", 0>>}
    ELSE CredentialNamesOf(ampProvider) \X Accounts

RouteRequest(threadId, ampProvider) ==
    \E r \in {routeRequest(Aff, entries, store, config, ampProvider, threadId, now)} :
        /\ map' = r.aff.map
        /\ counts' = r.aff.counts
        /\ entries' = r.entries
        /\ last' = [NoOp EXCEPT !.op = "routeRequest", !.thread = threadId,
                                !.handler = r.res.handler, !.pool = r.res.pool,
                                !.account = r.res.account, !.pin = r.pin]
        /\ UNCHANGED <<now, ticks, cleanupTimer, nextSweep, hist, env>>

RerouteAfter429(threadId, ampProvider, failedPool, failedAccount, retryAfterSeconds) ==
    \E r \in {rerouteAfter429(Aff, entries, store, config, ampProvider, failedPool,
                             failedAccount, retryAfterSeconds, threadId, now)} :
        /\ MapHas(store, <<credentialName(failedPool), failedAccount>>)
        /\ Count429(entries, <<failedPool, failedAccount>>) < MaxRouter429
        /\ map' = r.aff.map
        /\ counts' = r.aff.counts
        /\ entries' = r.entries
        /\ last' = [NoOp EXCEPT !.op = "rerouteAfter429", !.thread = threadId,
                                !.handler = r.res.handler, !.pool = r.res.pool,
                                !.account = r.res.account, !.found = r.found]
        /\ UNCHANGED <<now, ticks, cleanupTimer, nextSweep, hist, env>>

\* store.save(provider, credentials, account) after a token refresh: the row
\* of an account that is signed in gets the refresh token the provider returned.
StoreSave(provider, account, refreshToken) ==
    /\ storeOps < MaxStoreOps
    /\ MapHas(store, <<provider, account>>)
    /\ store' = MapSet(store, <<provider, account>>, [refreshToken |-> refreshToken])
    /\ storeOps' = storeOps + 1
    /\ last' = NoOp
    /\ UNCHANGED <<now, ticks, map, counts, cleanupTimer, nextSweep, entries, hist,
                   config, focus, request, beside>>

\* store.remove(provider, account)
StoreRemove(provider, account) ==
    /\ storeOps < MaxStoreOps
    /\ store' = MapDelete(store, <<provider, account>>)
    /\ storeOps' = storeOps + 1
    /\ last' = NoOp
    /\ UNCHANGED <<now, ticks, map, counts, cleanupTimer, nextSweep, entries, hist,
                   config, focus, request, beside>>

\* The clock of the router scenarios.  At the instants they visit the periodic
\* sweep has had nothing to evict (its latest run was at 2 h sharp, when an
\* entry assigned at 0 is not yet past its TTL), so it is left to SpecAffinity.
RouterTick(d) == ticks < MaxRouterTicks /\ Tick(d)

InitRouter ==
    /\ now = 0
    /\ ticks = 0
    /\ map = EmptyMap
    /\ counts = EmptyMap
    /\ cleanupTimer = TRUE
    /\ nextSweep = CLEANUP_INTERVAL_MS
    /\ entries = EmptyMap
    /\ hist = EmptyMap
    /\ focus \in RtProviders
    /\ request = NoRequest
    /\ store = [k \in InitialRows(focus) |-> [refreshToken |-> "rt"]]
    /\ storeOps = 0
    /\ config \in {AllEnabled, AllDisabled}
    /\ last = NoOp
    /\ AtRest

RouterNext ==
    \/ \E t \in RtThreads : RouteRequest(t, focus)
    \/ \E t \in RtThreads, pa \in PairsOf(focus), ra \in RtRetryAfter :
          RerouteAfter429(t, focus, pa[1], pa[2], ra)
    \/ \E pa \in PairsOf(focus) : CdRecordSuccess(pa[1], pa[2])
    \/ \E n \in CredentialNamesOf(focus), a \in Accounts, tok \in {"", "rt"} :
          StoreSave(n, a, tok)
    \/ \E n \in CredentialNamesOf(focus), a \in Accounts : StoreRemove(n, a)
    \/ \E d \in RtDeltas : RouterTick(d)

SpecRouter == InitRouter /\ [][RouterNext]_vars

(***************************************************************************)
(* src/server/server.ts: handleProvider serving one request at a time.     *)
(* Each action runs the handler from one await to the next.                *)
(***************************************************************************)
MAX_REROUTE_ATTEMPTS == 4

CACHE_PRESERVE_WAIT_MAX_S == 10

SvThreads == {"", "T1", "T2"}

SvRaw == {"", "{model}"}

\* What an adapter may answer: a status and a Retry-After header.
SvAnswers ==
    {[status |-> 200, header |-> NoHeader],
     [status |-> 401, header |-> NoHeader],
     [status |-> 403, header |-> NoHeader],
     [status |-> 429, header |-> NoHeader],
     [status |-> 429, header |-> [kind |-> "num", val |-> 0]],
     [status |-> 429, header |-> [kind |-> "num", val |-> 3]],
     [status |-> 429, header |-> [kind |-> "num", val |-> 301]]}

\* parseBody: raw is kept as received; forwardBody is re-serialized when the
\* model of the body is mapped to another name.
parseBody(raw, needsRewrite) ==
    [raw |-> raw,
     forwardBody |-> IF raw = "" THEN raw
                     ELSE IF needsRewrite THEN "{provider model}" ELSE raw]

\* fallbackUpstream with the provider's body in place of the raw one.
fallbackUpstream_forwardBody(rq) ==
    [rq EXCEPT !.pc = "upstream",
               !.sent = IF rq.body.forwardBody = "" THEN "undefined" ELSE rq.body.forwardBody]

\* fallbackUpstream: body: body.raw || undefined.
fallbackUpstream(rq) ==
    [rq EXCEPT !.pc = "upstream",
               !.sent = IF rq.body.raw = "" THEN "undefined" ELSE rq.body.raw]

\* return response: the client receives the answer of the adapter or of upstream.
deliver(rq, status, via) == [rq EXCEPT !.pc = "done", !.status = status, !.via = via]

\* The answer to the latest adapter call, noted in the request.
answered(rq, ans, t) ==
    [rq EXCEPT !.log = Append(@, [call |-> rq.pc, pool |-> rq.pool, account |-> rq.account,
                                  status |-> ans.status, at |-> t])]

\* tryReroute with a loop that goes on as long as a candidate is found.
tryReroute_noLimit(rq, a, e, st, cfg, ampProvider, t) ==
    The({IF ~next.found
         THEN [request |-> fallbackUpstream(rq), aff |-> next.aff,
               entries |-> next.entries]
         ELSE [request |-> [rq EXCEPT !.pc = "rerouted", !.pool = next.res.pool,
                                      !.account = next.res.account, !.calls = @ + 1],
               aff |-> next.aff, entries |-> next.entries] :
         next \in {rerouteAfter429(a, e, st, cfg, ampProvider, rq.pool, rq.account,
                                   parseRetryAfter(rq.header, t), rq.thread, t)}})

\* tryReroute from the test of its loop on: reroute and forward, or give up.
\* Returns [request, aff, entries].
tryReroute(rq, a, e, st, cfg, ampProvider, t) ==
    IF rq.attempt >= MAX_REROUTE_ATTEMPTS
    THEN [request |-> fallbackUpstream(rq), aff |-> a, entries |-> e]
    ELSE The({IF ~next.found
              THEN [request |-> fallbackUpstream(rq), aff |-> next.aff,
                    entries |-> next.entries]
              ELSE [request |-> [rq EXCEPT !.pc = "rerouted", !.pool = next.res.pool,
                                           !.account = next.res.account, !.calls = @ + 1],
                    aff |-> next.aff, entries |-> next.entries] :
              next \in {rerouteAfter429(a, e, st, cfg, ampProvider, rq.pool, rq.account,
                                        parseRetryAfter(rq.header, t), rq.thread, t)}})

\* What the router saw when the request arrived: no pair cooling down, equal
\* active counts, the pair the thread has an affinity entry on.
arrival(threadId) ==
    [calm |-> \A pa \in PairsOf(focus) : ~isCoolingDown(entries, pa[1], pa[2], now).ret,
     equal |-> \A pa, pb \in PairsOf(focus) :
                  activeCount(counts, pa[1], pa[2]) = activeCount(counts, pb[1], pb[2]),
     pinned |-> IF threadId # "" /\ MapHas(map, key(threadId, focus))
                THEN <<map[key(threadId, focus)].pool, map[key(threadId, focus)].account>>
                ELSE <<>>]

\* handleProvider up to the first forward (or to upstream when no route).
ReceiveRequest(threadId, raw, needsRewrite) ==
    /\ request.pc \in {"idle", "done"}
    /\ request.served < MaxRequests
    /\ \E r \in {routeRequest(Aff, entries, store, config, focus, threadId, now)},
          rq \in {[NoRequest EXCEPT !.thread = threadId,
                                    !.body = parseBody(raw, needsRewrite),
                                    !.served = request.served + 1,
                                    !.pre = arrival(threadId)]} :
          /\ map' = r.aff.map
          /\ counts' = r.aff.counts
          /\ entries' = r.entries
          /\ request' = IF r.res.handler # "null"
                        THEN [rq EXCEPT !.pc = "initial", !.pool = r.res.pool,
                                        !.account = r.res.account, !.calls = 1]
                        ELSE fallbackUpstream(rq)
    /\ last' = NoOp
    /\ UNCHANGED <<now, ticks, cleanupTimer, nextSweep, hist, world>>

\* The state after tryReroute ran up to its forward or gave up.
Rerouted(rr) ==
    /\ request' = rr.request
    /\ map' = rr.aff.map
    /\ counts' = rr.aff.counts
    /\ entries' = rr.entries

\* handleProvider waiting and retrying whatever the known Retry-After is.
InitialResponse_waitAny(ans) ==
    /\ request.pc = "initial"
    /\ \E rq \in {[answered(request, ans, now) EXCEPT !.header = ans.header]},
          retryAfter \in {parseRetryAfter(ans.header, now)} :
          IF ans.status = 429 /\ rq.pool # "null"
          THEN IF retryAfter = Undefined
               THEN \E rr \in {tryReroute(rq, Aff, entries, store, config, focus, now)} :
                       Rerouted(rr)
               ELSE /\ request' = [rq EXCEPT !.pc = "sleeping",
                                             !.wake = now + retryAfter[1] * 1000]
                    /\ UNCHANGED <<map, counts, entries>>
          ELSE IF ans.status = 401
          THEN /\ request' = fallbackUpstream(rq)
               /\ UNCHANGED <<map, counts, entries>>
          ELSE /\ request' = deliver(rq, ans.status, "local")
               /\ entries' = recordSuccess(entries, rq.pool, rq.account)
               /\ UNCHANGED <<map, counts>>
    /\ last' = NoOp
    /\ UNCHANGED <<now, ticks, cleanupTimer, nextSweep, hist, world>>

\* The adapter answers the first forward: handleProvider up to the next await.
InitialResponse(ans) ==
    /\ request.pc = "initial"
    /\ \E rq \in {[answered(request, ans, now) EXCEPT !.header = ans.header]},
          retryAfter \in {parseRetryAfter(ans.header, now)} :
          IF ans.status = 429 /\ rq.pool # "null"
          THEN IF retryAfter = Undefined \/ retryAfter[1] > CACHE_PRESERVE_WAIT_MAX_S
               THEN \E rr \in {tryReroute(rq, Aff, entries, store, config, focus, now)} :
                       Rerouted(rr)
               ELSE /\ request' = [rq EXCEPT !.pc = "sleeping",
                                             !.wake = now + retryAfter[1] * 1000]
                    /\ UNCHANGED <<map, counts, entries>>
          ELSE IF ans.status = 401
          THEN /\ request' = fallbackUpstream(rq)
               /\ UNCHANGED <<map, counts, entries>>
          ELSE /\ request' = deliver(rq, ans.status, "local")
               /\ entries' = recordSuccess(entries, rq.pool, rq.account)
               /\ UNCHANGED <<map, counts>>
    /\ last' = NoOp
    /\ UNCHANGED <<now, ticks, cleanupTimer, nextSweep, hist, world>>

\* tryWithCachePreserve: the sleep is over (Bun.sleep resolving when due), the
\* same account is tried again.
Wake ==
    /\ request.pc = "sleeping"
    /\ now' = request.wake
    /\ request' = [request EXCEPT !.pc = "retried", !.calls = @ + 1]
    /\ last' = NoOp
    /\ UNCHANGED <<ticks, map, counts, cleanupTimer, nextSweep, entries, hist, world>>

\* The adapter answers the retry: the rest of tryWithCachePreserve and, when
\* it returns null, tryReroute up to its first forward.
RetryResponse(ans) ==
    /\ request.pc = "retried"
    /\ \E rq \in {answered(request, ans, now)} :
          IF ans.status # 429 /\ ans.status # 401
          THEN /\ request' = deliver(rq, ans.status, "local")
               /\ entries' = recordSuccess(entries, rq.pool, rq.account)
               /\ UNCHANGED <<map, counts>>
          ELSE \E e1 \in {IF ans.status = 429
                          THEN record429(entries, rq.pool, rq.account,
                                         parseRetryAfter(ans.header, now), now)
                          ELSE entries} :
                  \E rr \in {tryReroute(rq, Aff, e1, store, config, focus, now)} :
                     Rerouted(rr)
    /\ last' = NoOp
    /\ UNCHANGED <<now, ticks, cleanupTimer, nextSweep, hist, world>>

\* The adapter answers a rerouted forward: the rest of the loop body of
\* tryReroute and, on 429, the next turn of the loop.
RerouteResponse(ans) ==
    /\ request.pc = "rerouted"
    /\ \E rq \in {answered(request, ans, now)} :
          IF ans.status = 429 /\ rq.pool # "null"
          THEN \E e1 \in {record429(entries, rq.pool, rq.account,
                                    parseRetryAfter(ans.header, now), now)},
                  rq1 \in {[rq EXCEPT !.attempt = @ + 1]} :
                  \E rr \in {tryReroute(rq1, Aff, e1, store, config, focus, now)} :
                     Rerouted(rr)
          ELSE IF ans.status # 401
          THEN /\ request' = deliver(rq, ans.status, "local")
               /\ entries' = recordSuccess(entries, rq.pool, rq.account)
               /\ UNCHANGED <<map, counts>>
          ELSE /\ request' = fallbackUpstream(rq)
               /\ UNCHANGED <<map, counts, entries>>
    /\ last' = NoOp
    /\ UNCHANGED <<now, ticks, cleanupTimer, nextSweep, hist, world>>

\* The paid upstream answers; its answer goes to the client.
UpstreamResponse(status) ==
    /\ request.pc = "upstream"
    /\ request' = deliver(request, status, "upstream")
    /\ last' = NoOp
    /\ UNCHANGED <<now, ticks, map, counts, cleanupTimer, nextSweep, entries, hist, world>>

\* Time passes between two requests.
IdleTick(d) == request.pc \in {"idle", "done"} /\ ticks < MaxRouterTicks /\ Tick(d)

InitServer ==
    /\ now = 0
    /\ ticks = 0
    /\ map = EmptyMap
    /\ counts = EmptyMap
    /\ cleanupTimer = TRUE
    /\ nextSweep = CLEANUP_INTERVAL_MS
    /\ entries = EmptyMap
    /\ hist = EmptyMap
    /\ focus = "openai"
    /\ store = [k \in InitialRows(focus) |-> [refreshToken |-> "rt"]]
    /\ storeOps = 0
    /\ config = AllEnabled
    /\ request = NoRequest
    /\ last = NoOp
    /\ AtRest

ServerNext ==
    \/ \E t \in SvThreads, raw \in SvRaw : ReceiveRequest(t, raw, TRUE)
    \/ \E ans \in SvAnswers : InitialResponse(ans)
    \/ Wake
    \/ \E ans \in SvAnswers : RetryResponse(ans)
    \/ \E ans \in SvAnswers : RerouteResponse(ans)
    \/ UpstreamResponse(200)
    \/ \E d \in RtDeltas : IdleTick(d)

SpecServer == InitServer /\ [][ServerNext]_vars

(***************************************************************************)
(* Two requests in handleProvider at once.  The server runs on one thread: *)
(* a handler runs from one await to the next without interruption, and at  *)
(* an await another handler may run.  request is the handler that runs     *)
(* next, parked the one suspended at its await.                            *)
(***************************************************************************)
\* Requests in one behaviour, over both handlers.
MaxConcurrent == 3

CcThreads == {"T1"}

CcAnswers ==
    {[status |-> 200, header |-> NoHeader],
     [status |-> 429, header |-> NoHeader],
     [status |-> 429, header |-> [kind |-> "num", val |-> 3]],
     [status |-> 429, header |-> [kind |-> "num", val |-> 301]]}

\* The event loop turns to the other handler.
Switch ==
    /\ parked.pc # "idle" \/ request.pc # "idle"
    /\ request' = parked
    /\ parked' = request
    /\ last' = NoOp
    /\ UNCHANGED <<now, ticks, map, counts, cleanupTimer, nextSweep, entries, store,
                   storeOps, config, focus, hist, oauthVars, call, statsVars, text,
                   ampModel, signin, probe, transcoder, feed>>

\* Timers fire in the order of their due times.
WakeInTurn ==
    /\ parked.pc = "sleeping" => parked.wake >= request.wake
    /\ Wake

Arrive(threadId) ==
    /\ request.served + parked.served < MaxConcurrent
    /\ ReceiveRequest(threadId, "", TRUE)

ConcurrentNext ==
    \/ \E t \in CcThreads : Arrive(t)
    \/ \E ans \in CcAnswers : InitialResponse(ans)
    \/ WakeInTurn
    \/ \E ans \in CcAnswers : RetryResponse(ans)
    \/ \E ans \in CcAnswers : RerouteResponse(ans)
    \/ UpstreamResponse(200)
    \/ Switch

SpecConcurrent == InitServer /\ [][ConcurrentNext]_vars

(***************************************************************************)
(* src/auth/oauth.ts and src/auth/auto-refresh.ts: token(), the login lock *)
(* and the refresh timer.  Each action runs a caller from one await to the *)
(* next.                                                                   *)
(***************************************************************************)
TOKEN_EXPIRY_BUFFER_MS == 5 * 60000

REFRESH_INTERVAL_MS == 60000

\* Bun.sleep(1000) between the two refresh attempts of token().
REFRESH_RETRY_MS == 1000

\* raw.expires_in of a token response, in seconds.
EXPIRES_IN_S == 3600

\* Object.entries(providerConfigs), in order (the providers of the scenario).
providerConfigs == <<"codex", "google">>

\* The refresh tokens the providers hand out, in order of issue.
IssuedTokens == <<"rt1", "rt2">>

\* Token scenarios: token() calls of request tasks, and clock advances.
MaxTokenCalls == 3

MaxOaTicks == 2

OaDeltas == {REFRESH_RETRY_MS, REFRESH_INTERVAL_MS}

\* The (provider, account) pairs the request tasks ask tokens for.
OaPairs == {<<"codex", 0>>, <<"codex", 1>>, <<"google", 0>>}

\* store.fresh(credentials)
fresh(credentials, t) == t < credentials.expiresAt

\* parseTokenFields: expiresAt = Date.now() + expires_in * 1000 - buffer.
parseTokenFields(t) == [expiresAt |-> t + EXPIRES_IN_S * 1000 - TOKEN_EXPIRY_BUFFER_MS]

\* serialize without the lookup of the pending login.
serialize_noLock(locks, lg, serial, providerName) ==
    [promise |-> serial[providerName] + 1,
     loginLocks |-> MapSet(locks, providerName, serial[providerName] + 1),
     logins |-> lg \cup {[provider |-> providerName, id |-> serial[providerName] + 1]},
     serial |-> [serial EXCEPT ![providerName] = @ + 1]]

\* serialize(config) returns [promise, loginLocks, logins, serial]: the pending
\* login of the provider, or a new login() registered as pending.
serialize(locks, lg, serial, providerName) ==
    IF MapHas(locks, providerName)
    THEN [promise |-> locks[providerName], loginLocks |-> locks, logins |-> lg,
          serial |-> serial]
    ELSE [promise |-> serial[providerName] + 1,
          loginLocks |-> MapSet(locks, providerName, serial[providerName] + 1),
          logins |-> lg \cup {[provider |-> providerName, id |-> serial[providerName] + 1]},
          serial |-> [serial EXCEPT ![providerName] = @ + 1]]

\* token(config, account) up to its first await or its return.  b is
\* [task, loginLocks, logins, meter]; the credentials table is only read.
token(b, st, providerName, account, t) ==
    IF ~MapHas(st, <<providerName, account>>)
    THEN The({[task |-> [b.task EXCEPT !.pc = "login", !.provider = providerName,
                                       !.account = account, !.promise = s.promise,
                                       !.refreshToken = "", !.ret = "none",
                                       !.tries = 0],
               loginLocks |-> s.loginLocks, logins |-> s.logins,
               meter |-> [b.meter EXCEPT !.serial = s.serial]] :
              s \in {serialize(b.loginLocks, b.logins, b.meter.serial, providerName)}})
    ELSE IF fresh(st[<<providerName, account>>], t)
    THEN [b EXCEPT !.task.pc = "done", !.task.provider = providerName,
                   !.task.account = account, !.task.promise = 0,
                   !.task.refreshToken = "", !.task.ret = "token", !.task.tries = 0]
    ELSE [b EXCEPT !.task.pc = "refresh", !.task.tries = 1, !.task.provider = providerName,
                   !.task.account = account, !.task.promise = 0,
                   !.task.refreshToken = st[<<providerName, account>>].refreshToken,
                   !.task.ret = "none"]

\* refresh() after its exchange succeeded: the credentials it saves.
refreshed(st, providerName, account, refreshToken, t) ==
    MapSet(st, <<providerName, account>>,
           [refreshToken |-> refreshToken, expiresAt |-> parseTokenFields(t).expiresAt])

\* refreshAll from the row it has reached to its next await or its end.
RECURSIVE refreshAll(_, _, _)
refreshAll(b, st, t) ==
    IF b.task.rows = <<>>
    THEN IF b.task.pidx >= Len(providerConfigs)
         THEN [b EXCEPT !.task = NoTask]
         ELSE refreshAll([b EXCEPT !.task.pidx = @ + 1,
                                   !.task.rows = getAll(st, providerConfigs[b.task.pidx + 1])],
                         st, t)
    ELSE IF Head(b.task.rows).credentials.expiresAt - b.task.at > TOKEN_EXPIRY_BUFFER_MS
    THEN refreshAll([b EXCEPT !.task.rows = Tail(@)], st, t)
    ELSE The({IF c.task.pc = "done" THEN refreshAll(c, st, t) ELSE c :
              c \in {token([b EXCEPT !.task.rows = Tail(@)], st,
                           providerConfigs[b.task.pidx], Head(b.task.rows).account, t)}})

\* What a caller does once its token() has returned: a request task goes on
\* with its request, refreshAll with its next row.
resume(name, b, st, t) ==
    IF name = "sweep" THEN refreshAll(b, st, t)
    ELSE [b EXCEPT !.task = [NoTask EXCEPT !.ret = b.task.ret]]

Bundle(name) ==
    [task |-> tasks[name], loginLocks |-> loginLocks, logins |-> logins, meter |-> meter]

Unbundle(name, b) ==
    /\ tasks' = [tasks EXCEPT ![name] = b.task]
    /\ loginLocks' = b.loginLocks
    /\ logins' = b.logins
    /\ meter' = b.meter

\* An adapter's forward() calls oauth.token(config, account).
TokenCall(name, providerName, account) ==
    /\ tasks[name].pc = "idle"
    /\ meter.calls < MaxTokenCalls
    /\ \E b \in {token([Bundle(name) EXCEPT !.meter.calls = @ + 1], store, providerName,
                       account, now)} :
          Unbundle(name, IF b.task.pc = "done" THEN resume(name, b, store, now) ELSE b)
    /\ UNCHANGED <<now, ticks, store, routing, call, statsVars, text, ampModel, signin, probe, transcoder, feed, parked>>

\* The interval timer of startAutoRefresh fires: refreshAll up to its first await.
RefreshTimer ==
    /\ tasks["sweep"].pc = "idle"
    /\ now >= meter.nextRefresh
    /\ \E b \in {refreshAll([Bundle("sweep") EXCEPT
                                !.task = [NoTask EXCEPT !.pc = "sweeping", !.at = now],
                                !.meter.nextRefresh = now + REFRESH_INTERVAL_MS],
                            store, now)} :
          Unbundle("sweep", b)
    /\ UNCHANGED <<now, ticks, store, routing, call, statsVars, text, ampModel, signin, probe, transcoder, feed, parked>>

\* The token endpoint answers a refresh exchange: with the same refresh
\* token, with a new one, or with an error.
ExchangeAnswer(name, answer) ==
    /\ tasks[name].pc \in {"refresh", "retry"}
    /\ answer = "rotated" => meter.issued < Len(IssuedTokens)
    /\ IF answer = "error"
       THEN /\ IF tasks[name].pc = "refresh"
               THEN /\ tasks' = [tasks EXCEPT ![name].pc = "sleep",
                                              ![name].wake = now + REFRESH_RETRY_MS]
                    /\ UNCHANGED <<loginLocks, logins, meter>>
               ELSE \E b \in {[Bundle(name) EXCEPT !.task.pc = "done", !.task.ret = "null"]} :
                       Unbundle(name, resume(name, b, store, now))
            /\ UNCHANGED store
       ELSE \E st \in {refreshed(store, tasks[name].provider, tasks[name].account,
                                 IF answer = "rotated" THEN IssuedTokens[meter.issued + 1]
                                 ELSE tasks[name].refreshToken, now)},
               b \in {[Bundle(name) EXCEPT !.task.pc = "done", !.task.ret = "token",
                                           !.meter.issued = IF answer = "rotated"
                                                            THEN @ + 1 ELSE @]} :
               /\ store' = st
               /\ Unbundle(name, resume(name, b, st, now))
    /\ UNCHANGED <<now, ticks, routing, call, statsVars, text, ampModel, signin, probe, transcoder, feed, parked>>

\* token() giving up after the sleep, without a second exchange.
SleepOver_giveUp(name) ==
    /\ tasks[name].pc = "sleep"
    /\ now >= tasks[name].wake
    /\ \E b \in {[Bundle(name) EXCEPT !.task.pc = "done", !.task.ret = "null"]} :
          Unbundle(name, resume(name, b, store, now))
    /\ UNCHANGED <<now, ticks, store, routing, call, statsVars, text, ampModel, signin, probe, transcoder, feed, parked>>

\* The sleep between the two refresh attempts is over: the second exchange
\* goes out with the refresh token read at the start of token().
SleepOver(name) ==
    /\ tasks[name].pc = "sleep"
    /\ now >= tasks[name].wake
    /\ tasks' = [tasks EXCEPT ![name].pc = "retry", ![name].tries = @ + 1]
    /\ UNCHANGED <<now, ticks, store, loginLocks, logins, meter, routing, call, statsVars,
                   text, ampModel, signin, probe, transcoder, feed, parked>>

\* store.nextAccount(provider)
nextAccount(st, providerName) ==
    IF \E k \in DOMAIN st : k[1] = providerName
    THEN (CHOOSE a \in {k[2] : k \in {x \in DOMAIN st : x[1] = providerName}} :
             \A k \in DOMAIN st : k[1] = providerName => k[2] <= a) + 1
    ELSE 0

\* A login() settles: it throws (account = -1), or it saves the credentials
\* under the account of the identity (an existing one or the next one).  The
\* finalizer frees the lock, then everyone awaiting the login goes on.
LoginSettles(lg, account) ==
    /\ lg \in logins
    /\ account # -1 => /\ meter.issued < Len(IssuedTokens)
                       /\ \/ MapHas(store, <<lg.provider, account>>)
                          \/ account = nextAccount(store, lg.provider)
    /\ \E st \in {IF account = -1 THEN store
                  ELSE refreshed(store, lg.provider, account,
                                 IssuedTokens[meter.issued + 1], now)},
          ret \in {IF account = -1 THEN "null" ELSE "token"},
          waiters \in {{n \in OaTasks : /\ tasks[n].pc = "login"
                                        /\ tasks[n].provider = lg.provider
                                        /\ tasks[n].promise = lg.id}} :
          \E b \in {[task |-> [tasks["sweep"] EXCEPT !.pc = "done", !.ret = ret],
                     loginLocks |-> MapDelete(loginLocks, lg.provider),
                     logins |-> logins \ {lg},
                     meter |-> [meter EXCEPT !.issued = IF account = -1 THEN @ ELSE @ + 1]]} :
             \E c \in {IF "sweep" \in waiters THEN refreshAll(b, st, now)
                       ELSE [b EXCEPT !.task = tasks["sweep"]]} :
                /\ store' = st
                /\ tasks' = [n \in OaTasks |->
                                IF n = "sweep" THEN c.task
                                ELSE IF n \in waiters
                                     THEN [NoTask EXCEPT !.ret = ret]
                                     ELSE tasks[n]]
                /\ loginLocks' = c.loginLocks
                /\ logins' = c.logins
                /\ meter' = c.meter
    /\ UNCHANGED <<now, ticks, routing, call, statsVars, text, ampModel, signin, probe, transcoder, feed, parked>>

OaTick(d) ==
    /\ ticks < MaxOaTicks
    /\ now' = now + d
    /\ ticks' = ticks + 1
    /\ UNCHANGED <<store, oauthVars, routing, call, statsVars, text, ampModel, signin, probe, transcoder, feed, parked>>

\* At the start two Codex accounts are signed in, the access token of the
\* first expired or good for two more minutes, that of the second expired;
\* nobody is signed in to Google.
InitOAuth ==
    /\ now = 0
    /\ ticks = 0
    /\ map = EmptyMap
    /\ counts = EmptyMap
    /\ cleanupTimer = FALSE
    /\ nextSweep = 0
    /\ entries = EmptyMap
    /\ hist = EmptyMap
    /\ \E e0 \in {0, 2 * REFRESH_INTERVAL_MS} :
          store = [k \in {<<"codex", 0>>, <<"codex", 1>>} |->
                      [refreshToken |-> IF k[2] = 0 THEN "rt" ELSE "ru",
                       expiresAt |-> IF k[2] = 0 THEN e0 ELSE 0]]
    /\ storeOps = 0
    /\ config = AllEnabled
    /\ focus = ""
    /\ request = NoRequest
    /\ last = NoOp
    /\ loginLocks = EmptyMap
    /\ logins = {}
    /\ tasks = [t \in OaTasks |-> NoTask]
    /\ meter = [NoMeter EXCEPT !.serial = [p \in {"codex", "google"} |-> 0],
                               !.nextRefresh = REFRESH_INTERVAL_MS]
    /\ call = NoCall
    /\ ring = NoRing
    /\ recorded = <<>>
    /\ text = NoText
    /\ ampModel = NoModel
    /\ signin = NoSignin
    /\ probe = NoProbe
    /\ transcoder = NoTranscoder
    /\ feed = NoFeed
    /\ parked = NoRequest

OAuthNext ==
    \/ \E n \in OaRequests, pa \in OaPairs : TokenCall(n, pa[1], pa[2])
    \/ RefreshTimer
    \/ \E n \in OaTasks, answer \in {"same", "rotated", "error"} : ExchangeAnswer(n, answer)
    \/ \E n \in OaTasks : SleepOver(n)
    \/ \E lg \in logins, a \in {-1} \cup Accounts : LoginSettles(lg, a)
    \/ \E d \in OaDeltas : OaTick(d)

SpecOAuth == InitOAuth /\ [][OAuthNext]_vars

(***************************************************************************)
(* Token management while an account is disconnected in the dashboard.     *)
(***************************************************************************)
\* doDisconnect(p, account): store.remove(p.name, account) for a listed account.
Disconnect(provider, account) ==
    /\ MapHas(store, <<provider, account>>)
    /\ StoreRemove(provider, account)

DisconnectNext ==
    \/ \E n \in OaRequests, pa \in OaPairs : TokenCall(n, pa[1], pa[2])
    \/ \E n \in OaRequests, answer \in {"same", "rotated", "error"} : ExchangeAnswer(n, answer)
    \/ \E n \in OaRequests : SleepOver(n)
    \/ \E lg \in logins, a \in {-1} \cup Accounts : LoginSettles(lg, a)
    \/ OaTick(REFRESH_RETRY_MS)
    \/ \E pa \in OaPairs : Disconnect(pa[1], pa[2])

SpecDisconnect == InitOAuth /\ [][DisconnectNext]_vars

(***************************************************************************)
(* src/providers/base.ts forward(), under the fetch handler of the server  *)
(* (src/server/server.ts) and the cache-preserve wait.  One request at a   *)
(* time; each action runs it from one await to the next.                   *)
(***************************************************************************)
RETRYABLE_STATUS == {408, 500, 502, 503, 504}

MAX_RETRIES == 3

RETRY_DELAY_MS == 500

\* Forward scenarios: requests per behaviour.
MaxFwRequests == 2

\* What a fetch may bring: a network failure, or a response with a status
\* (a 429 with or without a short Retry-After).
FwAnswers ==
    {[error |-> TRUE, status |-> 0, retryAfter |-> Undefined]}
    \cup {[error |-> FALSE, status |-> st, retryAfter |-> Undefined] :
             st \in {200, 404, 408, 429, 500, 504}}
    \cup {[error |-> FALSE, status |-> 429, retryAfter |-> Seconds(3)]}

\* forward() that also takes 429 for a status to retry.
forward_retry429(c, ans, t) ==
    IF (ans.error \/ ans.status \in RETRYABLE_STATUS \cup {429}) /\ c.attempt < MAX_RETRIES
    THEN [c EXCEPT !.pc = "backoff", !.log = Append(@, ans),
                   !.wake = t + RETRY_DELAY_MS * (c.attempt + 1)]
    ELSE IF ans.error
    THEN [c EXCEPT !.pc = "ended", !.log = Append(@, ans), !.outcome = "threw"]
    ELSE [c EXCEPT !.pc = "ended", !.log = Append(@, ans), !.outcome = "returned",
                   !.status = ans.status]

\* forward(): the body of its loop once the fetch of this turn has settled.
\* It sleeps for the next turn, throws, or returns the response.
forward(c, ans, t) ==
    IF ans.error
    THEN IF c.attempt < MAX_RETRIES
         THEN [c EXCEPT !.pc = "backoff", !.log = Append(@, ans),
                        !.wake = t + RETRY_DELAY_MS * (c.attempt + 1)]
         ELSE [c EXCEPT !.pc = "ended", !.log = Append(@, ans), !.outcome = "threw"]
    ELSE IF ans.status \in RETRYABLE_STATUS /\ c.attempt < MAX_RETRIES
    THEN [c EXCEPT !.pc = "backoff", !.log = Append(@, ans),
                   !.wake = t + RETRY_DELAY_MS * (c.attempt + 1)]
    ELSE [c EXCEPT !.pc = "ended", !.log = Append(@, ans), !.outcome = "returned",
                   !.status = ans.status]

\* The fetch handler with the status of the failed exchange in its answer.
serve_lastStatus(c) ==
    IF c.outcome = "threw"
    THEN [c EXCEPT !.pc = "done", !.status = 502, !.body = "Internal proxy error",
                   !.failed = @ + 1]
    ELSE [c EXCEPT !.pc = "done", !.body = "provider"]

\* The fetch handler of startServer around handle(): the response of the
\* handler, or 500 with {error: "Internal proxy error"} when it threw.
serve(c) ==
    IF c.outcome = "threw"
    THEN [c EXCEPT !.pc = "done", !.status = 500, !.body = "Internal proxy error",
                   !.failed = @ + 1]
    ELSE [c EXCEPT !.pc = "done", !.body = "provider"]

\* handleProvider once a forward() call has ended: the cache-preserve wait
\* after a first 429 with a short Retry-After, else the answer to the client
\* (what the reroute stage does with a 429 or 401 is in SpecServer).
afterForward(c, t) ==
    IF /\ c.outcome = "returned"
       /\ c.round = 1
       /\ c.status = 429
       /\ c.log[Len(c.log)].retryAfter # Undefined
       /\ c.log[Len(c.log)].retryAfter[1] <= CACHE_PRESERVE_WAIT_MAX_S
    THEN [c EXCEPT !.pc = "preserve",
                   !.wake = t + c.log[Len(c.log)].retryAfter[1] * 1000]
    ELSE serve(c)

\* A request arrives and reaches the first fetch of forward().
FwReceive ==
    /\ call.pc \in {"idle", "done"}
    /\ call.served < MaxFwRequests
    /\ call' = [NoCall EXCEPT !.pc = "fetching", !.round = 1, !.fetches = 1, !.total = 1,
                              !.served = call.served + 1, !.failed = call.failed]
    /\ UNCHANGED <<now, ticks, store, routing, oauthVars, statsVars, text, ampModel, signin, probe, transcoder, feed, parked>>

\* The fetch settles.
FetchSettles(ans) ==
    /\ call.pc = "fetching"
    /\ \E c \in {forward(call, ans, now)} :
          call' = IF c.pc = "ended" THEN afterForward(c, now) ELSE c
    /\ UNCHANGED <<now, ticks, store, routing, oauthVars, statsVars, text, ampModel, signin, probe, transcoder, feed, parked>>

\* Bun.sleep(RETRY_DELAY_MS * (attempt + 1)) is over: the next turn of the loop.
BackoffOver ==
    /\ call.pc = "backoff"
    /\ now' = call.wake
    /\ call' = [call EXCEPT !.pc = "fetching", !.attempt = @ + 1, !.fetches = @ + 1,
                            !.total = @ + 1]
    /\ UNCHANGED <<ticks, store, routing, oauthVars, statsVars, text, ampModel, signin, probe, transcoder, feed, parked>>

\* Bun.sleep(retryAfter * 1000) of tryWithCachePreserve is over: the same
\* account is tried again with a new forward() call.
PreserveOver ==
    /\ call.pc = "preserve"
    /\ now' = call.wake
    /\ call' = [call EXCEPT !.pc = "fetching", !.round = 2, !.attempt = 0, !.fetches = 1,
                            !.total = @ + 1, !.log = <<>>, !.outcome = "none",
                            !.status = 0]
    /\ UNCHANGED <<ticks, store, routing, oauthVars, statsVars, text, ampModel, signin, probe, transcoder, feed, parked>>

\* The client hangs up while the request sleeps.  Nothing in the handler
\* reads req.signal, and neither Bun.sleep nor fetch is given a signal.
ClientCancel ==
    /\ call.pc \in {"backoff", "preserve"}
    /\ call.cancelled = "no"
    /\ call' = [call EXCEPT !.cancelled = call.pc, !.before = call.total]
    /\ UNCHANGED <<now, ticks, store, routing, oauthVars, statsVars, text, ampModel, signin, probe, transcoder, feed, parked>>

InitForward ==
    /\ InitCommon

ForwardNext ==
    \/ FwReceive
    \/ \E ans \in FwAnswers : FetchSettles(ans)
    \/ BackoffOver
    \/ PreserveOver
    \/ ClientCancel

SpecForward == InitForward /\ [][ForwardNext]_vars

(***************************************************************************)
(* StatsRecorder: the ring of the latest requests.                         *)
(***************************************************************************)
\* Ring scenarios: the capacities tried, and the records made.
MaxCapacity == 3

MaxRecords == 5

Min(a, b) == IF a < b THEN a ELSE b

\* record(entry): push while the buffer grows, overwrite at writeIndex after.
record(r, entry) ==
    [maxEntries |-> r.maxEntries,
     buffer |-> IF Len(r.buffer) < r.maxEntries THEN Append(r.buffer, entry)
                ELSE [r.buffer EXCEPT ![r.writeIndex + 1] = entry],
     writeIndex |-> (r.writeIndex + 1) % r.maxEntries,
     totalCount |-> r.totalCount + 1]

\* The loop of recentRequests: count entries from idx on, wrapping around.
RECURSIVE collect(_, _, _)
collect(buf, idx, count) ==
    IF count <= 0 THEN <<>>
    ELSE <<buf[idx + 1]>> \o collect(buf, (idx + 1) % Len(buf), count - 1)

\* recentRequests that reads from the start of the buffer.
recentRequests_fromStart(r, n) ==
    IF Min(n, Len(r.buffer)) = 0 THEN <<>>
    ELSE collect(r.buffer, 0, Min(n, Len(r.buffer)))

\* recentRequests(n)
recentRequests(r, n) ==
    IF Min(n, Len(r.buffer)) = 0 THEN <<>>
    ELSE collect(r.buffer,
                 (r.writeIndex - Min(n, Len(r.buffer)) + Len(r.buffer)) % Len(r.buffer),
                 Min(n, Len(r.buffer)))

\* stats.record(entry) at the end of a request; the entry carries the
\* number of the request in place of its timestamp.
StRecord(statusCode) ==
    /\ ring.totalCount < MaxRecords
    /\ \E entry \in {[timestamp |-> ring.totalCount + 1, statusCode |-> statusCode]} :
          /\ ring' = record(ring, entry)
          /\ recorded' = Append(recorded, entry)
    /\ UNCHANGED <<now, ticks, store, routing, oauthVars, call, text, ampModel, signin, probe, transcoder, feed, parked>>

InitStats ==
    /\ now = 0
    /\ ticks = 0
    /\ map = EmptyMap
    /\ counts = EmptyMap
    /\ cleanupTimer = FALSE
    /\ nextSweep = 0
    /\ entries = EmptyMap
    /\ hist = EmptyMap
    /\ store = EmptyMap
    /\ storeOps = 0
    /\ config = AllEnabled
    /\ focus = ""
    /\ request = NoRequest
    /\ last = NoOp
    /\ OAuthAtRest
    /\ call = NoCall
    /\ ring \in {[NoRing EXCEPT !.maxEntries = c] : c \in 1 .. MaxCapacity}
    /\ recorded = <<>>
    /\ text = NoText
    /\ ampModel = NoModel
    /\ signin = NoSignin
    /\ probe = NoProbe
    /\ transcoder = NoTranscoder
    /\ feed = NoFeed
    /\ parked = NoRequest

StatsNext == \E statusCode \in {200, 429} : StRecord(statusCode)

SpecStats == InitStats /\ [][StatsNext]_vars

(***************************************************************************)
(* The SSE codec: parse and encode.  A text is a sequence of tokens: line  *)
(* feed, space, a letter, a digit, and the four field names with their     *)
(* colon.                                                                  *)
(***************************************************************************)
LF == "LF"

SP == " "

SseTokens == {LF, SP, "a", "1", "event:", "data:", "id:", "retry:"}

\* Codec scenarios: the length of the texts tried.
MaxTextLen == 5

DigitTokens == <<"0", "1", "2", "3", "4", "5", "6", "7", "8", "9">>

IsDigit(tok) == \E d \in 1 .. 10 : DigitTokens[d] = tok

DigitOf(tok) == (CHOOSE d \in 1 .. 10 : DigitTokens[d] = tok) - 1

Whitespace(tok) == tok \in {LF, SP}

\* String.prototype.trimStart / trimEnd / trim
RECURSIVE trimStart(_)
trimStart(str) ==
    IF str # <<>> /\ Whitespace(Head(str)) THEN trimStart(Tail(str)) ELSE str

RECURSIVE trimEnd(_)
trimEnd(str) ==
    IF str # <<>> /\ Whitespace(str[Len(str)])
    THEN trimEnd(SubSeq(str, 1, Len(str) - 1))
    ELSE str

trim(str) == trimEnd(trimStart(str))

\* String.prototype.split(sep) for a non-empty separator.
RECURSIVE split(_, _)
split(str, sep) ==
    IF \E i \in 1 .. Len(str) - Len(sep) + 1 : SubSeq(str, i, i + Len(sep) - 1) = sep
    THEN The({<<SubSeq(str, 1, i - 1)>> \o split(SubSeq(str, i + Len(sep), Len(str)), sep) :
              i \in {CHOOSE i \in 1 .. Len(str) - Len(sep) + 1 :
                        /\ SubSeq(str, i, i + Len(sep) - 1) = sep
                        /\ \A j \in 1 .. i - 1 : SubSeq(str, j, j + Len(sep) - 1) # sep}})
    ELSE <<str>>

\* parseInt(str, 10) of a trimmed string: the leading digits, or NaN.
NaN == <<>>

RECURSIVE leadingDigits(_, _)
leadingDigits(str, acc) ==
    IF str # <<>> /\ IsDigit(Head(str))
    THEN leadingDigits(Tail(str), acc * 10 + DigitOf(Head(str)))
    ELSE acc

parseInt(str) ==
    IF str # <<>> /\ IsDigit(Head(str)) THEN <<leadingDigits(str, 0)>> ELSE NaN

\* `${n}` of a number that is not negative.
RECURSIVE numberToString(_)
numberToString(n) ==
    IF n < 10 THEN <<DigitTokens[n + 1]>>
    ELSE numberToString(n \div 10) \o <<DigitTokens[(n % 10) + 1]>>

\* A Chunk: a field is Undefined or <<value>>.
NoChunk == [event |-> Undefined, data |-> Undefined, id |-> Undefined, retry |-> Undefined]

\* The body of the loop over the lines of a block.
parseLine(chunk, line) ==
    IF line # <<>> /\ Head(line) = "event:"
    THEN [chunk EXCEPT !.event = <<trim(Tail(line))>>]
    ELSE IF line # <<>> /\ Head(line) = "data:"
    THEN [chunk EXCEPT !.data = IF chunk.data # Undefined /\ chunk.data[1] # <<>>
                                THEN <<chunk.data[1] \o <<LF>> \o trimStart(Tail(line))>>
                                ELSE <<trimStart(Tail(line))>>]
    ELSE IF line # <<>> /\ Head(line) = "id:"
    THEN [chunk EXCEPT !.id = <<trim(Tail(line))>>]
    ELSE IF line # <<>> /\ Head(line) = "retry:"
    THEN IF parseInt(trim(Tail(line))) # NaN
         THEN [chunk EXCEPT !.retry = parseInt(trim(Tail(line)))]
         ELSE chunk
    ELSE chunk

RECURSIVE parseLines(_, _, _)
parseLines(chunk, lines, i) ==
    IF i > Len(lines) THEN chunk
    ELSE parseLines(parseLine(chunk, lines[i]), lines, i + 1)

RECURSIVE parseBlocks(_, _)
parseBlocks(blocks, i) ==
    IF i > Len(blocks) THEN <<>>
    ELSE IF trim(blocks[i]) = <<>> THEN parseBlocks(blocks, i + 1)
    ELSE The({IF chunk.data # Undefined THEN <<chunk>> \o parseBlocks(blocks, i + 1)
              ELSE parseBlocks(blocks, i + 1) :
              chunk \in {parseLines(NoChunk, split(blocks[i], <<LF>>), 1)}})

\* parse(raw)
parse(raw) == parseBlocks(split(raw, <<LF, LF>>), 1)

RECURSIVE dataLines(_, _)
dataLines(lines, i) ==
    IF i > Len(lines) THEN <<>>
    ELSE <<"data:", SP>> \o lines[i] \o <<LF>> \o dataLines(lines, i + 1)

\* encode that writes the data as it stands, on one data line.
encode_oneDataLine(chunk) ==
    (IF chunk.event # Undefined /\ chunk.event[1] # <<>>
     THEN <<"event:", SP>> \o chunk.event[1] \o <<LF>> ELSE <<>>)
    \o (IF chunk.id # Undefined /\ chunk.id[1] # <<>>
        THEN <<"id:", SP>> \o chunk.id[1] \o <<LF>> ELSE <<>>)
    \o (IF chunk.retry # Undefined
        THEN <<"retry:", SP>> \o numberToString(chunk.retry[1]) \o <<LF>> ELSE <<>>)
    \o <<"data:", SP>> \o chunk.data[1] \o <<LF>>
    \o <<LF>>

\* encode(chunk)
encode(chunk) ==
    (IF chunk.event # Undefined /\ chunk.event[1] # <<>>
     THEN <<"event:", SP>> \o chunk.event[1] \o <<LF>> ELSE <<>>)
    \o (IF chunk.id # Undefined /\ chunk.id[1] # <<>>
        THEN <<"id:", SP>> \o chunk.id[1] \o <<LF>> ELSE <<>>)
    \o (IF chunk.retry # Undefined
        THEN <<"retry:", SP>> \o numberToString(chunk.retry[1]) \o <<LF>> ELSE <<>>)
    \o dataLines(split(chunk.data[1], <<LF>>), 1)
    \o <<LF>>

\* chunks.map(encode).join("")
RECURSIVE encodeAll(_, _)
encodeAll(chunks, i) ==
    IF i > Len(chunks) THEN <<>> ELSE encode(chunks[i]) \o encodeAll(chunks, i + 1)

SseParse ==
    /\ text.pc = "raw"
    /\ text' = [text EXCEPT !.pc = "parsed", !.chunks = parse(text.raw)]
    /\ UNCHANGED <<now, ticks, store, routing, oauthVars, call, statsVars, ampModel, signin, probe, transcoder, feed, parked>>

SseEncode ==
    /\ text.pc = "parsed"
    /\ text' = [text EXCEPT !.pc = "encoded", !.encoded = encodeAll(text.chunks, 1)]
    /\ UNCHANGED <<now, ticks, store, routing, oauthVars, call, statsVars, ampModel, signin, probe, transcoder, feed, parked>>

SseParseAgain ==
    /\ text.pc = "encoded"
    /\ text' = [text EXCEPT !.pc = "again", !.again = parse(text.encoded)]
    /\ UNCHANGED <<now, ticks, store, routing, oauthVars, call, statsVars, ampModel, signin, probe, transcoder, feed, parked>>

InitCodec ==
    /\ now = 0
    /\ ticks = 0
    /\ map = EmptyMap
    /\ counts = EmptyMap
    /\ cleanupTimer = FALSE
    /\ nextSweep = 0
    /\ entries = EmptyMap
    /\ hist = EmptyMap
    /\ store = EmptyMap
    /\ storeOps = 0
    /\ config = AllEnabled
    /\ focus = ""
    /\ request = NoRequest
    /\ last = NoOp
    /\ OAuthAtRest
    /\ call = NoCall
    /\ ring = NoRing
    /\ recorded = <<>>
    /\ \E n \in 0 .. MaxTextLen : \E raw \in [1 .. n -> SseTokens] :
          text = [NoText EXCEPT !.pc = "raw", !.raw = raw]
    /\ ampModel = NoModel
    /\ signin = NoSignin
    /\ probe = NoProbe
    /\ transcoder = NoTranscoder
    /\ feed = NoFeed
    /\ parked = NoRequest

CodecNext == SseParse \/ SseEncode \/ SseParseAgain

SpecCodec == InitCodec /\ [][CodecNext]_vars

(***************************************************************************)
(* The streaming transform of the SSE module: transform(source, fn).       *)
(***************************************************************************)
\* The length of the streams tried, and their alphabet.
MaxFeedLen == 7

FeedTokens == {LF, "a", "data:", "event:"}

\* String.prototype.lastIndexOf(sep), counted from 1; 0 when sep is absent.
lastIndexOf(str, sep) ==
    IF \E i \in 1 .. Len(str) - Len(sep) + 1 : SubSeq(str, i, i + Len(sep) - 1) = sep
    THEN CHOOSE i \in 1 .. Len(str) - Len(sep) + 1 :
            /\ SubSeq(str, i, i + Len(sep) - 1) = sep
            /\ \A j \in i + 1 .. Len(str) - Len(sep) + 1 :
                  SubSeq(str, j, j + Len(sep) - 1) # sep
    ELSE 0

\* fn, the rewriter of the data: a text that is not JSON passes unchanged.
rewriteData(data) == data

\* for (const chunk of parse(...)): chunk.data = fn(chunk.data); the chunk is
\* enqueued, encoded, when its data is not empty.
RECURSIVE enqueueAll(_, _)
enqueueAll(chunks, i) ==
    IF i > Len(chunks) THEN <<>>
    ELSE The({(IF data # <<>> THEN <<encode([chunks[i] EXCEPT !.data = <<data>>])>>
               ELSE <<>>) \o enqueueAll(chunks, i + 1) :
              data \in {rewriteData(chunks[i].data[1])}})

\* TransformStream.transform(raw, controller): the buffer left and the
\* records enqueued.  Variant: the buffer is not carried over from the
\* chunk before.
transform_noCarry(buffer, raw) ==
    The({IF boundary = 0 THEN [buffer |-> raw, out |-> <<>>]
         ELSE [buffer |-> SubSeq(raw, boundary + 2, Len(raw)),
               out |-> enqueueAll(parse(SubSeq(raw, 1, boundary + 1)), 1)] :
         boundary \in {lastIndexOf(raw, <<LF, LF>>)}})

transform(buffer, raw) ==
    The({IF boundary = 0 THEN [buffer |-> buffer \o raw, out |-> <<>>]
         ELSE [buffer |-> SubSeq(buffer \o raw, boundary + 2, Len(buffer) + Len(raw)),
               out |-> enqueueAll(parse(SubSeq(buffer \o raw, 1, boundary + 1)), 1)] :
         boundary \in {lastIndexOf(buffer \o raw, <<LF, LF>>)}})

\* TransformStream.flush(controller): the records enqueued.
flush(buffer) ==
    IF trim(buffer) # <<>> THEN enqueueAll(parse(buffer), 1) ELSE <<>>

\* The source delivers its next chunk, the next n tokens of the stream.
FeedChunk(n) ==
    /\ feed.pc = "open"
    /\ n <= Len(feed.rest)
    /\ \E r \in {transform(feed.buffer, SubSeq(feed.rest, 1, n))} :
          feed' = [feed EXCEPT !.rest = SubSeq(@, n + 1, Len(@)),
                               !.buffer = r.buffer,
                               !.out = @ \o r.out,
                               !.chunks = @ + 1]
    /\ UNCHANGED <<now, ticks, store, routing, oauthVars, call, statsVars, text, ampModel,
                   signin, probe, transcoder, parked>>

\* The source is closed: flush.
FeedEnd ==
    /\ feed.pc = "open"
    /\ feed.rest = <<>>
    /\ feed' = [feed EXCEPT !.pc = "closed", !.buffer = <<>>,
                            !.out = @ \o flush(feed.buffer)]
    /\ UNCHANGED <<now, ticks, store, routing, oauthVars, call, statsVars, text, ampModel,
                   signin, probe, transcoder, parked>>

InitStream ==
    /\ now = 0
    /\ ticks = 0
    /\ map = EmptyMap
    /\ counts = EmptyMap
    /\ cleanupTimer = FALSE
    /\ nextSweep = 0
    /\ entries = EmptyMap
    /\ hist = EmptyMap
    /\ store = EmptyMap
    /\ storeOps = 0
    /\ config = AllEnabled
    /\ focus = ""
    /\ request = NoRequest
    /\ last = NoOp
    /\ OAuthAtRest
    /\ call = NoCall
    /\ ring = NoRing
    /\ recorded = <<>>
    /\ text = NoText
    /\ ampModel = NoModel
    /\ signin = NoSignin
    /\ probe = NoProbe
    /\ transcoder = NoTranscoder
    /\ \E n \in 0 .. MaxFeedLen : \E raw \in [1 .. n -> FeedTokens] :
          feed = [NoFeed EXCEPT !.pc = "open", !.whole = raw, !.rest = raw]
    /\ parked = NoRequest

StreamNext ==
    \/ \E n \in 1 .. MaxFeedLen : FeedChunk(n)
    \/ FeedEnd

SpecStream == InitStream /\ [][StreamNext]_vars

(***************************************************************************)
(* src/routing/models.ts: resolveModel.  A model name is a sequence of     *)
(* pieces; the suffix "-api-preview" is the pieces "-api", "-preview".     *)
(***************************************************************************)
STRIP_SUFFIXES == <<(<<"-api", "-preview">>)>>

NamePieces == {"gpt", "-api", "-preview"}

\* Model scenarios: the length of the names tried.
MaxNameLen == 5

\* String.prototype.endsWith
endsWith(str, suffix) ==
    /\ Len(str) >= Len(suffix)
    /\ SubSeq(str, Len(str) - Len(suffix) + 1, Len(str)) = suffix

\* resolveModel: the loop over STRIP_SUFFIXES from suffix i on.
RECURSIVE stripFrom(_, _)
stripFrom(name, i) ==
    IF i > Len(STRIP_SUFFIXES) THEN name
    ELSE IF endsWith(name, STRIP_SUFFIXES[i])
         THEN SubSeq(name, 1, Len(name) - Len(STRIP_SUFFIXES[i]))
         ELSE stripFrom(name, i + 1)

resolveModel(name) == stripFrom(name, 1)

Resolve ==
    /\ ampModel.pc = "given"
    /\ ampModel' = [ampModel EXCEPT !.pc = "once", !.once = resolveModel(ampModel.name)]
    /\ UNCHANGED <<now, ticks, store, routing, oauthVars, call, statsVars, text, signin, probe, transcoder, feed, parked>>

ResolveAgain ==
    /\ ampModel.pc = "once"
    /\ ampModel' = [ampModel EXCEPT !.pc = "twice", !.twice = resolveModel(ampModel.once)]
    /\ UNCHANGED <<now, ticks, store, routing, oauthVars, call, statsVars, text, signin, probe, transcoder, feed, parked>>

InitModels ==
    /\ now = 0
    /\ ticks = 0
    /\ map = EmptyMap
    /\ counts = EmptyMap
    /\ cleanupTimer = FALSE
    /\ nextSweep = 0
    /\ entries = EmptyMap
    /\ hist = EmptyMap
    /\ store = EmptyMap
    /\ storeOps = 0
    /\ config = AllEnabled
    /\ focus = ""
    /\ request = NoRequest
    /\ last = NoOp
    /\ OAuthAtRest
    /\ call = NoCall
    /\ ring = NoRing
    /\ recorded = <<>>
    /\ text = NoText
    /\ \E n \in 1 .. MaxNameLen : \E name \in [1 .. n -> NamePieces] :
          ampModel = [NoModel EXCEPT !.pc = "given", !.name = name]
    /\ signin = NoSignin
    /\ probe = NoProbe
    /\ transcoder = NoTranscoder
    /\ feed = NoFeed
    /\ parked = NoRequest

ModelsNext == Resolve \/ ResolveAgain

SpecModels == InitModels /\ [][ModelsNext]_vars

(***************************************************************************)
(* src/auth/oauth.ts login() and src/auth/callback-server.ts: one          *)
(* interactive login of a provider, from the generated state to the saved  *)
(* credentials.  An absent string (null, undefined) is "".                 *)
(***************************************************************************)
\* Logins in a behaviour.
MaxLogins == 2

\* The provider that signs in, its callback path, the values generateState
\* may return, and what a request to the callback server may carry.
LoginProvider == "codex"

callbackPath == "/auth/callback"

LoginStates == {"s1", "s2"}

Callbacks ==
    [path : {callbackPath, "/favicon.ico"}, code : {"", "c"}, state : {"", "s1", "s2"},
     error : {"", "access_denied"}]

\* Token responses: the exchange fails, or answers with or without a refresh
\* token and with the identity extractIdentity finds in it.
TokenResponses ==
    [ok : BOOLEAN, refresh_token : {"", "rn"}, email : {"", "a", "b"},
     accountId : {"", "i", "j"}]

\* waitForCallback's fetch handler: what it does with a request.
callbackFetch_noStateCheck(cb, expectedState) ==
    IF cb.path # callbackPath THEN "not found"
    ELSE IF cb.error # "" THEN "oauth error"
    ELSE IF cb.code = "" \/ cb.state = "" THEN "missing"
    ELSE "resolve"

callbackFetch(cb, expectedState) ==
    IF cb.path # callbackPath THEN "not found"
    ELSE IF cb.error # "" THEN "oauth error"
    ELSE IF cb.code = "" \/ cb.state = "" THEN "missing"
    ELSE IF cb.state # expectedState THEN "csrf"
    ELSE "resolve"

\* store.findByIdentity over getAll(provider), -1 for null.
RECURSIVE findIn(_, _, _)
findIn(all, i, credentials) ==
    IF i > Len(all) THEN -1
    ELSE IF \/ credentials.email # "" /\ all[i].credentials.email = credentials.email
            \/ credentials.accountId # ""
               /\ all[i].credentials.accountId = credentials.accountId
         THEN all[i].account
         ELSE findIn(all, i + 1, credentials)

findByIdentity(st, provider, credentials) == findIn(getAll(st, provider), 1, credentials)

\* login() saving under the next account whatever the identity.
loginSave_alwaysNew(st, providerName, raw, serial) ==
    The({IF raw.refresh_token = ""
         THEN [saved |-> FALSE, store |-> st, account |-> -1, error |-> "no refresh token"]
         ELSE [saved |-> TRUE,
               store |-> MapSet(st, <<providerName, account>>,
                                [accessToken |-> serial, refreshToken |-> raw.refresh_token,
                                 email |-> raw.email, accountId |-> raw.accountId]),
               account |-> account, error |-> "none"] :
         account \in {nextAccount(st, providerName)}})

\* login() from the token response on: parseTokenFields, the identity, the
\* account, the refresh token carried over, the save.  Returns
\* [saved, store, account, error].
loginSave(st, providerName, raw, serial) ==
    The({The({IF refreshToken = ""
              THEN [saved |-> FALSE, store |-> st, account |-> -1,
                    error |-> "no refresh token"]
              ELSE [saved |-> TRUE,
                    store |-> MapSet(st, <<providerName, account>>,
                                     [accessToken |-> serial, refreshToken |-> refreshToken,
                                      email |-> raw.email, accountId |-> raw.accountId]),
                    account |-> account, error |-> "none"] :
              refreshToken \in {IF raw.refresh_token # "" THEN raw.refresh_token
                                ELSE IF MapHas(st, <<providerName, account>>)
                                     THEN st[<<providerName, account>>].refreshToken
                                     ELSE ""}}) :
         account \in {The({IF existing # -1 THEN existing
                           ELSE nextAccount(st, providerName) :
                           existing \in {findByIdentity(st, providerName, raw)}})}})

\* login() up to await waitForCallback(...): the state is generated and the
\* browser opened.
LoginStart(state) ==
    /\ signin.pc \in {"idle", "done"}
    /\ signin.started < MaxLogins
    /\ signin' = [NoSignin EXCEPT !.pc = "waiting", !.state = state,
                                  !.started = signin.started + 1]
    /\ UNCHANGED <<now, ticks, store, routing, oauthVars, call, statsVars, text, ampModel,
                   probe, transcoder, feed, parked>>

\* A request reaches the callback server: 404, or the promise is rejected and
\* login() throws, or it is resolved and login() sends the token exchange.
CallbackArrives(cb) ==
    /\ signin.pc = "waiting"
    /\ \E r \in {callbackFetch(cb, signin.state)} :
          signin' = IF r = "not found" THEN [signin EXCEPT !.reply = "Not found"]
                    ELSE IF r = "resolve"
                    THEN [signin EXCEPT !.pc = "exchanging", !.exchanges = @ + 1,
                                        !.reply = "Authentication Successful"]
                    ELSE [signin EXCEPT !.pc = "done", !.outcome = r,
                                        !.reply = "Authentication Failed"]
    /\ UNCHANGED <<now, ticks, store, routing, oauthVars, call, statsVars, text, ampModel,
                   probe, transcoder, feed, parked>>

\* No callback came within the timeout.
CallbackTimeout ==
    /\ signin.pc = "waiting"
    /\ signin' = [signin EXCEPT !.pc = "done", !.outcome = "timed out"]
    /\ UNCHANGED <<now, ticks, store, routing, oauthVars, call, statsVars, text, ampModel,
                   probe, transcoder, feed, parked>>

\* The token endpoint answers the authorization_code exchange.
ExchangeResponse(raw) ==
    /\ signin.pc = "exchanging"
    /\ IF ~raw.ok
       THEN /\ signin' = [signin EXCEPT !.pc = "done", !.outcome = "exchange failed"]
            /\ UNCHANGED store
       ELSE \E r \in {loginSave(store, LoginProvider, raw, signin.started)} :
               /\ store' = r.store
               /\ signin' = [signin EXCEPT !.pc = "done", !.account = r.account,
                                           !.outcome = IF r.saved THEN "saved" ELSE r.error]
    /\ UNCHANGED <<now, ticks, routing, oauthVars, call, statsVars, text, ampModel,
                   probe, transcoder, feed, parked>>

\* The credentials at the start: one Google account; no Codex account, or
\* one, or accounts 0 and 2 (account 1 was removed).
LoginRow(refreshToken, email, accountId) ==
    [accessToken |-> 0, refreshToken |-> refreshToken, email |-> email,
     accountId |-> accountId]

InitLogin ==
    /\ now = 0
    /\ ticks = 0
    /\ map = EmptyMap
    /\ counts = EmptyMap
    /\ cleanupTimer = FALSE
    /\ nextSweep = 0
    /\ entries = EmptyMap
    /\ hist = EmptyMap
    /\ \E rows \in {{}, {0}, {0, 2}} :
          store = [k \in {<<"google", 0>>} \cup ({LoginProvider} \X rows) |->
                      IF k[1] = "google" THEN LoginRow("rg", "a", "i")
                      ELSE IF k[2] = 0 THEN LoginRow("r0", "a", "i")
                      ELSE LoginRow("r2", "b", "j")]
    /\ storeOps = 0
    /\ config = AllEnabled
    /\ focus = ""
    /\ request = NoRequest
    /\ last = NoOp
    /\ AtRest

LoginNext ==
    \/ \E state \in LoginStates : LoginStart(state)
    \/ \E cb \in Callbacks : CallbackArrives(cb)
    \/ CallbackTimeout
    \/ \E raw \in TokenResponses : ExchangeResponse(raw)

SpecLogin == InitLogin /\ [][LoginNext]_vars

(***************************************************************************)
(* src/providers/antigravity.ts : forward and tryEndpoints.                *)
(***************************************************************************)
\* Calls of the adapter in one behaviour.
MaxProbes == 2

\* antigravity.ts line 15: [ANTIGRAVITY_DAILY_ENDPOINT, AUTOPUSH_ENDPOINT,
\* CODE_ASSIST_ENDPOINT].
endpoints == <<"daily", "autopush", "prod">>

\* What awaiting the shared forward() for one endpoint comes to: a response
\* with the HTTP status of the endpoint, or an exception (the fetch failed),
\* written ConnectError.
ConnectError == 0

EndpointOutcomes == {200, 404, 429, 499, 500, 503, ConnectError}

\* One turn of the for loop of tryEndpoints, from the settling of
\* await forward(...) to the next await or the return.  Variant: the loop
\* goes on to the next endpoint on every status of 400 or more.
afterEndpoint_advanceOn4xx(p, outcome) ==
    LET seen == Append(p.contacted, [endpoint |-> endpoints[p.next], outcome |-> outcome])
    IN IF outcome # ConnectError /\ outcome < 400
       THEN [p EXCEPT !.pc = "done", !.contacted = seen, !.status = outcome]
       ELSE IF p.next < Len(endpoints)
       THEN [p EXCEPT !.contacted = seen, !.next = @ + 1]
       ELSE [p EXCEPT !.pc = "done", !.contacted = seen, !.status = 502]

afterEndpoint(p, outcome) ==
    LET seen == Append(p.contacted, [endpoint |-> endpoints[p.next], outcome |-> outcome])
    IN IF outcome # ConnectError /\ outcome < 500
       THEN [p EXCEPT !.pc = "done", !.contacted = seen, !.status = outcome]
       ELSE IF p.next < Len(endpoints)
       THEN [p EXCEPT !.contacted = seen, !.next = @ + 1]
       ELSE [p EXCEPT !.pc = "done", !.contacted = seen, !.status = 502]

\* provider.forward up to the first await forward(...): without an access
\* token it returns denied() (401) and no endpoint is contacted.
ProbeStart(hasToken) ==
    /\ probe.pc \in {"idle", "done"}
    /\ probe.calls < MaxProbes
    /\ probe' = IF hasToken
                THEN [NoProbe EXCEPT !.pc = "awaiting", !.calls = probe.calls + 1]
                ELSE [NoProbe EXCEPT !.pc = "done", !.status = 401,
                                     !.calls = probe.calls + 1]
    /\ UNCHANGED <<now, ticks, store, routing, oauthVars, call, statsVars, text, ampModel,
                   signin, transcoder, feed, parked>>

\* The forward to the endpoint in turn settles.
EndpointSettles(outcome) ==
    /\ probe.pc = "awaiting"
    /\ probe' = afterEndpoint(probe, outcome)
    /\ UNCHANGED <<now, ticks, store, routing, oauthVars, call, statsVars, text, ampModel,
                   signin, transcoder, feed, parked>>

InitAtRest ==
    /\ now = 0
    /\ ticks = 0
    /\ map = EmptyMap
    /\ counts = EmptyMap
    /\ cleanupTimer = FALSE
    /\ nextSweep = 0
    /\ entries = EmptyMap
    /\ hist = EmptyMap
    /\ store = EmptyMap
    /\ storeOps = 0
    /\ config = AllEnabled
    /\ focus = ""
    /\ request = NoRequest
    /\ last = NoOp
    /\ AtRest

EndpointsNext ==
    \/ \E hasToken \in BOOLEAN : ProbeStart(hasToken)
    \/ \E outcome \in EndpointOutcomes : EndpointSettles(outcome)

SpecEndpoints == InitAtRest /\ [][EndpointsNext]_vars

(***************************************************************************)
(* src/providers/codex-sse.ts : the reverse transcoder, Responses API      *)
(* events to Chat Completions chunks.                                      *)
(***************************************************************************)
\* Records of one upstream stream.
MaxTranscoded == 3

\* The call_id values of the upstream; NoCallId: the event has no call_id.
CallIds == {"call_a", "call_b", "call_c"}

NoCallId == ""

DONE == "[DONE]"

\* The data of an upstream record, as the transformer reads it: the literal
\* [DONE]; a text JSON.parse rejects, as its lines; or a JSON object, of
\* which type, item.type, item.call_id / call_id and delta are kept.
CodexData(type, item, callId, delta, lines) ==
    [type |-> type, item |-> item, call_id |-> callId, delta |-> delta, lines |-> lines]

NotJson == "not JSON"

CodexEvents ==
    {CodexData(DONE, "", NoCallId, "", <<DONE>>)}
    \cup {CodexData(NotJson, "", NoCallId, "", ls) : ls \in {<<"junk">>, <<"junk", "event: x">>}}
    \cup {CodexData(t, "", NoCallId, "", <<>>) :
            t \in {"", "response.created", "response.completed", "response.in_progress"}}
    \cup {CodexData("response.output_item.added", "message", NoCallId, "", <<>>)}
    \cup {CodexData("response.output_item.added", "function_call", c, "", <<>>) :
            c \in {"call_a", "call_b"}}
    \cup {CodexData("response.output_text.delta", "", NoCallId, d, <<>>) : d \in {"", "x"}}
    \cup {CodexData("response.function_call_arguments.delta", "", c, d, <<>>) :
            c \in CallIds \cup {NoCallId}, d \in {"", "x"}}

\* TransformState of createResponseTransformer at its creation.
NoTransformState == [responseId |-> "", toolCallIndex |-> 0, toolCallIds |-> EmptyMap]

\* The empty string a transformer returns for "emit nothing".
Nothing == [kind |-> "nothing"]

\* serialize / serializeFinish: one chat.completion.chunk, a single line of
\* JSON; id is chatcmpl-<responseId>.
chunkOf(state, delta) == [kind |-> "chunk", id |-> state.responseId, delta |-> delta]

\* What the transformer returns for a text it passes on unchanged.
Unchanged(data) == [kind |-> "text", lines |-> data.lines]

\* The function returned by createResponseTransformer, applied to the data
\* of one record: the new TransformState and the string returned.
transformer(state, data) ==
    IF data.type = DONE THEN [state |-> state, out |-> Unchanged(data)]
    ELSE IF data.type = NotJson THEN [state |-> state, out |-> Unchanged(data)]
    ELSE IF data.type = "" THEN [state |-> state, out |-> [kind |-> "text", lines |-> <<"json">>]]
    ELSE IF data.type = "response.created"
    THEN [state |-> [state EXCEPT !.responseId = "resp"], out |-> Nothing]
    ELSE IF data.type = "response.output_item.added"
    THEN IF data.item = "message"
         THEN [state |-> state, out |-> chunkOf(state, [role |-> "assistant"])]
         ELSE IF data.item = "function_call"
         THEN [state |-> [state EXCEPT !.toolCallIndex = @ + 1,
                                       !.toolCallIds = MapSet(@, data.call_id,
                                                              state.toolCallIndex)],
               out |-> chunkOf(state, [tool_call |-> state.toolCallIndex,
                                       id |-> data.call_id])]
         ELSE [state |-> state, out |-> Nothing]
    ELSE IF data.type = "response.output_text.delta"
    THEN [state |-> state,
          out |-> IF data.delta # "" THEN chunkOf(state, [content |-> data.delta])
                  ELSE Nothing]
    ELSE IF data.type = "response.function_call_arguments.delta"
    THEN [state |-> state,
          out |-> IF data.delta # ""
                  THEN chunkOf(state,
                          [tool_call |-> IF data.call_id # NoCallId
                                            /\ MapHas(state.toolCallIds, data.call_id)
                                         THEN state.toolCallIds[data.call_id]
                                         ELSE 0,
                           arguments |-> data.delta])
                  ELSE Nothing]
    ELSE IF data.type = "response.completed"
    THEN [state |-> state,
          out |-> chunkOf(state, [finish_reason |-> IF state.toolCallIndex > 0
                                                    THEN "tool_calls" ELSE "stop"])]
    ELSE [state |-> state, out |-> Nothing]

\* transformStream: the text enqueued for a transformed string, `data: `
\* followed by the string and an empty line; the lines of the text are kept.
lineOf(str) == [kind |-> "line", text |-> str]

enqueued(transformed) ==
    IF transformed.kind = "text"
    THEN [i \in 1..Len(transformed.lines) |-> lineOf(transformed.lines[i])]
    ELSE <<transformed>>

doneRecord == <<lineOf(DONE)>>

\* transformCodexResponse: a stream is opened with a new transformer.
TranscodeStart ==
    /\ transcoder.pc = "idle"
    /\ transcoder' = [pc |-> "open", state |-> NoTransformState, fed |-> <<>>, out |-> <<>>]
    /\ UNCHANGED <<now, ticks, store, routing, oauthVars, call, statsVars, text, ampModel,
                   signin, probe, feed, parked>>

\* TransformStream.transform for a chunk that completes one record.
TransformRecord(data) ==
    /\ transcoder.pc = "open"
    /\ Len(transcoder.fed) < MaxTranscoded
    /\ \E r \in {transformer(transcoder.state, data)} :
          transcoder' = [transcoder EXCEPT
                            !.state = r.state,
                            !.fed = Append(@, data),
                            !.out = IF r.out = Nothing THEN @
                                    ELSE Append(@, enqueued(r.out))]
    /\ UNCHANGED <<now, ticks, store, routing, oauthVars, call, statsVars, text, ampModel,
                   signin, probe, feed, parked>>

\* TransformStream.flush: the record left in the buffer, when there is one,
\* goes through the transformer; then the [DONE] marker.
NoTail == CodexData("no tail", "", NoCallId, "", <<>>)

Flush(tail) ==
    /\ transcoder.pc = "open"
    /\ tail # NoTail => Len(transcoder.fed) < MaxTranscoded
    /\ \E r \in {IF tail = NoTail THEN [state |-> transcoder.state, out |-> Nothing]
                 ELSE transformer(transcoder.state, tail)} :
          transcoder' = [transcoder EXCEPT
                            !.pc = "closed",
                            !.state = r.state,
                            !.fed = IF tail = NoTail THEN @ ELSE Append(@, tail),
                            !.out = Append(IF r.out = Nothing THEN @
                                           ELSE Append(@, enqueued(r.out)),
                                           doneRecord)]
    /\ UNCHANGED <<now, ticks, store, routing, oauthVars, call, statsVars, text, ampModel,
                   signin, probe, feed, parked>>

TranscoderNext ==
    \/ TranscodeStart
    \/ \E data \in CodexEvents : TransformRecord(data)
    \/ \E tail \in CodexEvents \cup {NoTail} : Flush(tail)

SpecTranscoder == InitAtRest /\ [][TranscoderNext]_vars

(***************************************************************************)
(* Claims about the affinity store (SpecAffinity).                         *)
(***************************************************************************)
SumCounts == SumOver(counts, DOMAIN counts)

\* C1: every entry of the affinity map has activeCount(entry.pool,
\* entry.account) >= 1, in every state reachable through get, peek, set,
\* clear and cleanup sweeps at any times.
C1_EntryIsCounted ==
    \A k \in DOMAIN map : activeCount(counts, map[k].pool, map[k].account) >= 1

\* A pin was just moved or removed while another thread still holds a pair.
C1_Witness ==
    /\ last.op = "clear"
    /\ \E k \in DOMAIN map : activeCount(counts, map[k].pool, map[k].account) = 1

\* C2 as stated: at every time the sum of the counts equals the number of
\* entries with assignedAt > now - TTL, also before any read or sweep has
\* evicted an entry whose TTL has passed.
C2_SumEqualsLiveEntries ==
    SumCounts = Cardinality({k \in DOMAIN map : map[k].assignedAt > now - TTL_MS})

\* C2 amended: the sum of the counts equals the number of entries held in the
\* map (evicted or not yet), which is at least the number of entries with
\* assignedAt > now - TTL; right after a cleanup sweep it equals the number
\* of entries with assignedAt >= now - TTL.
C2_SumEqualsStoredEntries ==
    /\ SumCounts = Cardinality(DOMAIN map)
    /\ SumCounts >= Cardinality({k \in DOMAIN map : map[k].assignedAt > now - TTL_MS})
    /\ last.op = "sweep" =>
         SumCounts = Cardinality({k \in DOMAIN map : map[k].assignedAt >= now - TTL_MS})

\* Time has passed an entry's TTL and nothing has evicted it yet.
C2_Witness ==
    \E k \in DOMAIN map : isExpired(map[k], now)

(***************************************************************************)
(* Claims about the cooldown tracker (SpecCooldown, SpecEscalation).       *)
(***************************************************************************)
\* C7: for every (pool, account) and every time, isCoolingDown is true iff a
\* cooldown entry exists for the pair with until > now, and isExhausted
\* implies isCoolingDown.
C7_CoolingIffLiveEntry ==
    \A pa \in CdPairs :
        LET cooling == isCoolingDown(entries, pa[1], pa[2], now).ret
            exhausted == isExhausted(entries, pa[1], pa[2], now).ret
        IN  /\ cooling <=> (MapHas(entries, pa) /\ entries[pa].until > now)
            /\ exhausted => cooling

\* An exhausted entry is still stored at the very instant its cooldown ends.
C7_Witness ==
    \E pa \in DOMAIN entries : entries[pa].exhausted /\ entries[pa].until = now

\* C9: three 429s without Retry-After recorded on a pair within two minutes,
\* with no success recorded in between, leave the pair exhausted with
\* until = time of the third record + 2 hours, whatever cooldown reads happen
\* between the records.
C9_ThreeStrikesExhaust ==
    (/\ last.op = "record429"
     /\ Len(hist[EscPair]) = 3
     /\ hist[EscPair][3] - hist[EscPair][1] <= 120000)
    => /\ isExhausted(entries, EscPair[1], EscPair[2], now).ret
       /\ entries[EscPair].until = now + EXHAUSTED_COOLDOWN_MS

(***************************************************************************)
(* Claims about the router (SpecRouter).  Decision(T) is what routeRequest *)
(* returns, and the state it leaves, when called now for thread T.         *)
(***************************************************************************)
Decision(threadId) == routeRequest(Aff, entries, store, config, focus, threadId, now)

IsNull(res) == res.handler = "null" /\ res.account = 0

\* The candidates of the client provider that were not cooling down when the
\* selection read the cooldown map.
NonCooling(seen) == availableOf(seen.entries, buildCandidates(store, config, focus), now)

\* (pool, account) is a candidate not cooling down whose activeCount no other
\* such candidate undercuts.
IsArgMin(seen, pool, account) ==
    LET available == NonCooling(seen)
    IN  /\ \E i \in 1 .. Len(available) : available[i] = [pool |-> pool, account |-> account]
        /\ \A i \in 1 .. Len(available) :
              activeCount(seen.counts, pool, account)
                 <= activeCount(seen.counts, available[i].pool, available[i].account)

\* ... and it is the first such candidate in registry and account order.
IsFirstArgMin(seen, pool, account) ==
    LET available == NonCooling(seen)
    IN  \E i \in 1 .. Len(available) :
          /\ available[i] = [pool |-> pool, account |-> account]
          /\ \A j \in 1 .. Len(available) :
                activeCount(seen.counts, pool, account)
                   <= activeCount(seen.counts, available[j].pool, available[j].account)
          /\ \A j \in 1 .. i - 1 :
                activeCount(seen.counts, pool, account)
                   < activeCount(seen.counts, available[j].pool, available[j].account)

\* Thread T is pinned, the pin is within its TTL, and the pinned pair is not
\* cooling down (hence not exhausted) and is reported available by its adapter.
PinHolds(threadId) ==
    /\ threadId # ""
    /\ MapHas(map, key(threadId, focus))
    /\ LET pinned == map[key(threadId, focus)]
       IN  /\ ~isExpired(pinned, now)
           /\ ~isCoolingDown(entries, pinned.pool, pinned.account, now).ret
           /\ isAvailable(store, pinned.pool, pinned.account)

\* C3 as stated: every result of routeRequest is null with account 0, or an
\* argmin of activeCount over the candidates that are not cooling down.
C3_ResultIsArgMin ==
    \A t \in RtThreads :
        LET r == Decision(t)
        IN  IsNull(r.res) \/ IsArgMin(r.seen, r.res.pool, r.res.account)

\* C3 amended: every result of routeRequest is null with account 0, or the
\* thread's pin returned as it stands, or (no pin being returned) the first in
\* candidate order of the candidates not cooling down with the least
\* activeCount, counted after a broken pin was cleared and before the new pin.
C3_PinOrFirstArgMin ==
    \A t \in RtThreads :
        LET r == Decision(t)
        IN  \/ IsNull(r.res)
            \/ /\ PinHolds(t)
               /\ r.res.pool = map[key(t, focus)].pool
               /\ r.res.account = map[key(t, focus)].account
            \/ /\ ~PinHolds(t)
               /\ IsFirstArgMin(r.seen, r.res.pool, r.res.account)

\* routeRequest has just selected a pair afresh while another candidate, not
\* cooling down, carried a strictly greater load.
C3_Witness ==
    /\ last.op = "routeRequest"
    /\ last.pin # "returned"
    /\ last.handler # "null"
    /\ LET available == NonCooling([counts |-> counts, entries |-> entries])
       IN  \E i \in 1 .. Len(available) :
              activeCount(counts, available[i].pool, available[i].account)
                 > activeCount(counts, last.pool, last.account)

\* C4: a routeRequest for a thread whose pin is within its TTL, on a pair
\* that is not exhausted, not cooling down and available, returns the pinned
\* pair and keeps the pin, whatever the load of the other candidates.
C4_PinnedPairReturned ==
    \A t \in RtThreads :
        PinHolds(t) =>
            LET r == Decision(t)
                pinned == map[key(t, focus)]
            IN  /\ r.res = result(pinned.pool, pinned.account, pinned.pool)
                /\ MapHas(r.aff.map, key(t, focus))
                /\ r.aff.map[key(t, focus)].pool = pinned.pool
                /\ r.aff.map[key(t, focus)].account = pinned.account

\* routeRequest has just returned a thread's pin while another candidate, not
\* cooling down, had a strictly smaller activeCount.
C4_Witness ==
    /\ last.op = "routeRequest"
    /\ last.pin = "returned"
    /\ LET available == NonCooling([counts |-> counts, entries |-> entries])
       IN  \E i \in 1 .. Len(available) :
              activeCount(counts, available[i].pool, available[i].account)
                 < activeCount(counts, last.pool, last.account)

\* C5: a routeRequest for a thread whose pinned pair is exhausted clears the
\* pin (its count goes down by one), never returns the exhausted pair, and
\* either returns a candidate that was not cooling down and pins the thread
\* to it, or returns the upstream sentinel and leaves the thread unpinned.
C5_ExhaustedPinBroken ==
    \A t \in RtThreads \ {""} :
        LET k == key(t, focus)
        IN  (MapHas(map, k) /\ isExhausted(entries, map[k].pool, map[k].account, now).ret) =>
              LET r == Decision(t)
                  chosen == [pool |-> r.res.pool, account |-> r.res.account]
              IN  /\ ~(r.res.pool = map[k].pool /\ r.res.account = map[k].account)
                  /\ activeCount(r.aff.counts, map[k].pool, map[k].account)
                        = activeCount(counts, map[k].pool, map[k].account) - 1
                  /\ IF r.res.handler = "null"
                     THEN ~MapHas(r.aff.map, k)
                     ELSE /\ MapHas(r.aff.map, k)
                          /\ r.aff.map[k] = [pool |-> chosen.pool, account |-> chosen.account,
                                             assignedAt |-> now]
                          /\ \E i \in 1 .. Len(NonCooling(r.seen)) :
                                NonCooling(r.seen)[i] = chosen

\* routeRequest has just found a thread's pin exhausted and moved the thread
\* to another pair.
C5_Witness ==
    /\ last.op = "routeRequest"
    /\ last.pin = "exhausted"
    /\ last.handler # "null"
    /\ MapHas(map, key(last.thread, focus))
    /\ map[key(last.thread, focus)].pool = last.pool
    /\ map[key(last.thread, focus)].account = last.account

\* C6 as stated: no result of routeRequest or rerouteAfter429 with a handler
\* names an account whose stored credentials are missing or have an empty
\* refresh token at the time of the decision.
C6_ResultHasRefreshToken ==
    /\ \A t \in RtThreads :
          LET r == Decision(t)
          IN  r.res.handler # "null" =>
                hasRefreshToken(store, credentialName(r.res.pool), r.res.account)
    /\ \A t \in RtThreads, pa \in PairsOf(focus), ra \in RtRetryAfter :
          LET r == rerouteAfter429(Aff, entries, store, config, focus, pa[1], pa[2],
                                   ra, t, now)
          IN  r.found =>
                hasRefreshToken(store, credentialName(r.res.pool), r.res.account)

(***************************************************************************)
(* Claims about the retry engine of the server (SpecServer).               *)
(***************************************************************************)
\* The request arrived with no pair cooling down and equal active counts,
\* and so far its adapter calls were answered as in the scenario: 429 with
\* Retry-After 3, then 429, then 200.
Scenario ==
    /\ request.pc # "idle"
    /\ request.pre.calm
    /\ request.pre.equal
    /\ Len(request.log) >= 1 => /\ request.log[1].status = 429
                                /\ request.header = [kind |-> "num", val |-> 3]
    /\ Len(request.log) >= 2 => request.log[2].status = 429
    /\ Len(request.log) >= 3 => request.log[3].status = 200

\* What the claim says of a request in the scenario, call by call.
ScenarioOutcome ==
    /\ request.pc = "initial" => request.account = 0 /\ request.calls = 1
    /\ Len(request.log) >= 1 => request.log[1].account = 0
    /\ request.pc = "sleeping" => /\ request.wake = request.log[1].at + 3000
                                  /\ request.calls = 1
    /\ request.pc = "retried" => /\ request.account = 0
                                 /\ now >= request.log[1].at + 3000
                                 /\ request.calls = 2
    /\ Len(request.log) >= 2 => /\ request.log[2].account = 0
                                /\ request.log[2].at >= request.log[1].at + 3000
    /\ request.pc = "rerouted" => /\ request.account = 1
                                  /\ request.calls = 3
                                  /\ MapHas(entries, <<"codex", 0>>)
                                  /\ entries[<<"codex", 0>>].consecutive429 >= 1
    /\ Len(request.log) >= 3 => request.log[3].account = 1
    /\ request.pc \notin {"initial", "sleeping", "retried", "rerouted"} =>
          /\ request.pc = "done"
          /\ Len(request.log) = 3
          /\ request.status = 200
          /\ request.via = "local"
          /\ request.calls = 3

\* C8 as stated: with two codex accounts, no cooldowns and equal active
\* counts, the first route is account 0; after 429 with Retry-After 3 the
\* engine waits 3 s and retries account 0; a second 429 is recorded and the
\* request goes to account 1; its 200 reaches the client after exactly 3
\* adapter calls.
C8_WaitRetryReroute == Scenario => ScenarioOutcome

\* C8 amended: the same, for a request whose thread has no affinity entry on
\* account 1 (no thread id, no entry, or an entry on account 0), served with
\* no other request in flight.
C8_WaitRetryRerouteUnpinned ==
    (Scenario /\ request.pre.pinned # <<"codex", 1>>) => ScenarioOutcome

\* The scenario has run to its end: three adapter calls, 200 delivered.
C8_Witness ==
    /\ Scenario
    /\ request.pre.pinned # <<"codex", 1>>
    /\ request.pc = "done"
    /\ Len(request.log) = 3
    /\ request.calls = 3
    /\ request.status = 200

\* C10: once the adapter has answered the first forward of a request with 401,
\* that request makes no further adapter call, goes to the paid upstream with
\* the raw body it arrived with (none when it had none), and no step taken
\* for it changes the cooldown entries.
C10_Unauthorized ==
    /\ [](  (request.log # <<>> /\ request.log[1].status = 401)
          => /\ request.calls = 1
             /\ Len(request.log) = 1
             /\ request.pc \in {"upstream", "done"}
             /\ request.sent = (IF request.body.raw = "" THEN "undefined" ELSE request.body.raw)
             /\ request.pc = "done" => request.via = "upstream")
    /\ [][  (/\ request'.log # <<>>
             /\ request'.log[1].status = 401
             /\ request'.served = request.served)
          => entries' = entries ]_vars

\* A request with a body that the provider gets rewritten was answered 401
\* while a cooldown was on record, and upstream has answered it.
C10_Witness ==
    /\ request.pc = "done"
    /\ request.log # <<>>
    /\ request.log[1].status = 401
    /\ request.via = "upstream"
    /\ request.body.raw # ""
    /\ request.body.forwardBody # request.body.raw
    /\ entries # EmptyMap

(***************************************************************************)
(* Claims about token management (SpecOAuth).                              *)
(***************************************************************************)
\* A refresh exchange of the caller is in flight.
Exchanging(name) == tasks[name].pc \in {"refresh", "retry"}

\* C11 as stated: at no time are two refresh exchanges carrying the same
\* refresh token of the same (provider, account) in flight together, whatever
\* the order in which request tasks and the refresh timer call token().
C11_NoParallelRefresh ==
    \A m, n \in OaTasks :
        (m # n /\ Exchanging(m) /\ Exchanging(n))
        => ~(/\ tasks[m].provider = tasks[n].provider
             /\ tasks[m].account = tasks[n].account
             /\ tasks[m].refreshToken = tasks[n].refreshToken)

\* The logins of a provider that have not settled.
LoginsOf(providerName) == {lg \in logins : lg.provider = providerName}

\* C12: per provider at most one login started through serialize() is in
\* progress; the lock names exactly that login while it runs and is free once
\* it has ended, by success or by failure; whoever asks meanwhile awaits that
\* same login, and all who await it get its one result when it settles.
C12_SingleFlightLogin ==
    /\ [](\A p \in {"codex", "google"} :
             /\ Cardinality(LoginsOf(p)) <= 1
             /\ MapHas(loginLocks, p) <=> LoginsOf(p) # {}
             /\ MapHas(loginLocks, p) => LoginsOf(p) = {[provider |-> p, id |-> loginLocks[p]]}
             /\ \A n \in OaTasks :
                   (tasks[n].pc = "login" /\ tasks[n].provider = p)
                   => MapHas(loginLocks, p) /\ tasks[n].promise = loginLocks[p])
    /\ [][\A lg \in logins \ logins' :
             /\ ~MapHas(loginLocks', lg.provider) \/ loginLocks'[lg.provider] # lg.id
             /\ \A m, n \in OaRequests :
                   (/\ tasks[m].pc = "login" /\ tasks[m].provider = lg.provider
                    /\ tasks[n].pc = "login" /\ tasks[n].provider = lg.provider)
                   => /\ tasks'[m].pc = "idle"
                      /\ tasks'[m].ret = tasks'[n].ret
                      /\ tasks'[m].ret \in {"token", "null"}]_vars

\* Two callers await the second login of a provider: the first one has ended
\* and freed the lock, a later caller has started a new one.
C12_Witness ==
    \E m, n \in OaTasks :
        /\ m # n
        /\ tasks[m].pc = "login"
        /\ tasks[n].pc = "login"
        /\ tasks[m].provider = tasks[n].provider
        /\ tasks[m].promise = tasks[n].promise
        /\ tasks[m].promise >= 2

(***************************************************************************)
(* Claims about forward() and the fetch handler (SpecForward).             *)
(***************************************************************************)
\* C13 as stated: once the client has cancelled a request during the
\* cache-preserve sleep or a backoff sleep, no further fetch goes out for it.
C13_CancelStopsFetches ==
    call.cancelled # "no" => call.total = call.before

\* A network failure or a response with a status of RETRYABLE_STATUS.
Transient(ans) == ans.error \/ ans.status \in {408, 500, 502, 503, 504}

\* C14: a forward() call makes at most 4 fetches, and one more only after a
\* network failure or a status in {408, 500, 502, 503, 504}; a response with
\* any other status (429, other 4xx, 2xx) ends the call at once and is what
\* it returns, so as first answer it is returned after exactly one fetch; a
\* transient status on the 4th fetch is returned with that status.
C14_RetryOnlyTransient ==
    /\ call.fetches <= 4
    /\ call.fetches = Len(call.log) + (IF call.pc = "fetching" THEN 1 ELSE 0)
    /\ \A i \in 1 .. Len(call.log) :
          ~Transient(call.log[i])
          => /\ i = Len(call.log)
             /\ call.fetches = i
             /\ call.pc \in {"done", "preserve"}
             /\ call.outcome = "returned"
             /\ call.status = call.log[i].status
    /\ \A i \in 1 .. Len(call.log) - 1 : Transient(call.log[i])
    /\ (Len(call.log) = 4 /\ ~call.log[4].error)
       => /\ call.outcome = "returned"
          /\ call.status = call.log[4].status

\* A 500 has persisted through four fetches and came back as the response.
C14_Witness ==
    /\ Len(call.log) = 4
    /\ \A i \in 1 .. 4 : call.log[i].status = 500
    /\ call.outcome = "returned"
    /\ call.status = 500
    /\ call.fetches = 4

LatestRecorded(k) == SubSeq(recorded, Len(recorded) - k + 1, Len(recorded))

\* C16: after any sequence of record calls on a ring of capacity C,
\* recentRequests(n) is the last min(n, min(records, C)) recorded entries,
\* oldest first; the ring never holds more than C entries, and once full it
\* holds the latest C, each record having replaced the oldest one.
C16_RecentIsTail ==
    /\ \A n \in 0 .. MaxCapacity + 1 :
          recentRequests(ring, n)
             = LatestRecorded(Min(n, Min(Len(recorded), ring.maxEntries)))
    /\ Len(ring.buffer) = Min(Len(recorded), ring.maxEntries)
    /\ {ring.buffer[i] : i \in 1 .. Len(ring.buffer)}
          = {recorded[i] : i \in Len(recorded) - Len(ring.buffer) + 1 .. Len(recorded)}
    /\ ring.totalCount = Len(recorded)

\* The ring has wrapped and its write index stands inside the buffer.
C16_Witness ==
    /\ ring.maxEntries >= 2
    /\ Len(recorded) > ring.maxEntries
    /\ ring.writeIndex # 0

(***************************************************************************)
(* Claims about the SSE codec (SpecCodec).                                 *)
(***************************************************************************)
\* C17 as stated: for every SSE text x, parsing the encoding of the records
\* of parse(x) gives the same records, with the same event, id, retry and
\* data values.
C17_RoundTrip ==
    text.pc = "again" => text.again = text.chunks

\* A field that encode leaves out: an empty string counts as absent.
Blank(field) == IF field = <<(<<>>)>> THEN Undefined ELSE field

\* C17 amended: the same number of records in the same order, each with the
\* same data and retry values, and with the same event and id values except
\* that an event or id that was the empty string is absent afterwards.
C17_RoundTripUpToEmpty ==
    text.pc = "again"
    => /\ Len(text.again) = Len(text.chunks)
       /\ \A i \in 1 .. Len(text.chunks) :
             /\ text.again[i].data = text.chunks[i].data
             /\ text.again[i].retry = text.chunks[i].retry
             /\ text.again[i].event = Blank(text.chunks[i].event)
             /\ text.again[i].id = Blank(text.chunks[i].id)

\* A text with a record whose event field is there but empty went through
\* parse, encode and parse.
C17_Witness ==
    /\ text.pc = "again"
    /\ \E i \in 1 .. Len(text.chunks) : text.chunks[i].event = <<(<<>>)>>

(***************************************************************************)
(* Claims about the model names (SpecModels).                              *)
(***************************************************************************)
\* C18 as stated: resolveModel(resolveModel(m)) = resolveModel(m) for every
\* model name m.
C18_ResolveIdempotent ==
    ampModel.pc = "twice" => ampModel.twice = ampModel.once

(***************************************************************************)
(* Further claims about the router (SpecRouter) and the cooldown tracker   *)
(* (SpecCooldown).                                                         *)
(***************************************************************************)
\* Thread T is pinned, within the TTL, to a pair that is available and in
\* burst cooldown: cooling down, not exhausted.
PinInBurstCooldown(threadId) ==
    /\ threadId # ""
    /\ MapHas(map, key(threadId, focus))
    /\ LET pinned == map[key(threadId, focus)]
       IN  /\ ~isExpired(pinned, now)
           /\ isAvailable(store, pinned.pool, pinned.account)
           /\ isCoolingDown(entries, pinned.pool, pinned.account, now).ret
           /\ ~isExhausted(entries, pinned.pool, pinned.account, now).ret

\* C19 as stated: a routeRequest for a thread whose pinned pair is available
\* and in burst cooldown goes on to candidate selection without clearing the
\* pin, so when it returns the upstream sentinel the thread is still pinned
\* to the same pair.
C19_BurstCooldownKeepsPin ==
    \A t \in RtThreads :
        PinInBurstCooldown(t) =>
            LET r == Decision(t)
                k == key(t, focus)
            IN  /\ r.pin = "cooling"
                /\ r.res.handler = "null"
                   => /\ MapHas(r.aff.map, k)
                      /\ r.aff.map[k].pool = map[k].pool
                      /\ r.aff.map[k].account = map[k].account

Max(a, b) == IF a > b THEN a ELSE b

\* C20 as stated: record429 adds one to consecutive429, and when the
\* Retry-After is at most 300 s (30 s standing in for an unknown one) and the
\* new count is below 3 it sets until = now + max(retryAfter, 30 s).
C20_BurstAtLeastDefault ==
    \A pa \in CdPairs, ra \in CdRetryAfter :
        LET after == record429(entries, pa[1], pa[2], ra, now)
            n == Count429(entries, pa) + 1
            retryAfter == IF ra = Undefined THEN DEFAULT_BURST_S ELSE ra[1]
        IN  /\ after[pa].consecutive429 = n
            /\ (retryAfter <= EXHAUSTED_THRESHOLD_S /\ n < EXHAUSTED_CONSECUTIVE)
               => after[pa].until = now + Max(retryAfter, DEFAULT_BURST_S) * 1000

\* Retry-After headers of a 429: absent, a number of seconds (0, 3, 301) and
\* an HTTP-date that is not in the future.
RerouteHeaders ==
    {NoHeader, [kind |-> "num", val |-> 0], [kind |-> "num", val |-> 3],
     [kind |-> "num", val |-> 301], [kind |-> "date", val |-> 0]}

\* C21 as stated: rerouteAfter429 records the 429 before it selects, so for
\* every value parseRetryAfter can give (0 and unknown included) the route it
\* returns is never the failed (pool, account) pair.
C21_RerouteAvoidsFailedPair ==
    \A t \in RtThreads, pa \in PairsOf(focus), header \in RerouteHeaders :
        MapHas(store, <<credentialName(pa[1]), pa[2]>>) =>
            LET r == rerouteAfter429(Aff, entries, store, config, focus, pa[1], pa[2],
                                     parseRetryAfter(header, now), t, now)
            IN  r.found => ~(r.res.pool = pa[1] /\ r.res.account = pa[2])

(***************************************************************************)
(* Further claims about handleProvider (SpecServer).                       *)
(***************************************************************************)
\* The answers a request got from the forwards of the given call site
\* ("initial", "retried" for the cache-preserve retry, "rerouted").
CallsOf(rq, site) == {i \in 1 .. Len(rq.log) : rq.log[i].call = site}

\* An answer that ends the handling: neither 429 nor 401.
Final(status) == status # 429 /\ status # 401

\* The forwards a request has made, answered or not, in the reroute loop.
RerouteForwards(rq) ==
    Cardinality(CallsOf(rq, "rerouted")) + (IF rq.pc = "rerouted" THEN 1 ELSE 0)

\* C22: the reroute loop makes at most 4 adapter forwards and the request at
\* most 6; the answer the client gets from an adapter is the first one that is
\* neither 429 nor 401; a 401 in the reroute loop is the last adapter call;
\* with no such answer the request goes to the paid upstream; and as long as
\* the handling is not over some answer can arrive, each answer ending the
\* handling or starting one more of the bounded forwards.
C22_RerouteTerminates ==
    /\ RerouteForwards(request) <= MAX_REROUTE_ATTEMPTS
    /\ request.calls <= MAX_REROUTE_ATTEMPTS + 2
    /\ request.calls = Len(request.log)
                       + (IF request.pc \in {"initial", "retried", "rerouted"} THEN 1 ELSE 0)
    /\ \A i \in 1 .. Len(request.log) :
          /\ Final(request.log[i].status)
             => /\ i = Len(request.log)
                /\ request.pc = "done"
                /\ request.via = "local"
                /\ request.status = request.log[i].status
          /\ (request.log[i].status = 401 /\ request.log[i].call = "rerouted")
             => i = Len(request.log) /\ request.pc \in {"upstream", "done"}
    /\ (request.pc \in {"upstream", "done"}
        /\ \A i \in 1 .. Len(request.log) : ~Final(request.log[i].status))
       => /\ request.sent # "none"
          /\ request.pc = "done" => request.via = "upstream"
    /\ request.pc = "initial" => ENABLED (\E ans \in SvAnswers : InitialResponse(ans))
    /\ request.pc = "sleeping" => ENABLED Wake
    /\ request.pc = "retried" => ENABLED (\E ans \in SvAnswers : RetryResponse(ans))
    /\ request.pc = "rerouted" => ENABLED (\E ans \in SvAnswers : RerouteResponse(ans))
    /\ request.pc = "upstream" => ENABLED UpstreamResponse(200)

\* A request made the four forwards of the reroute loop, six in all, got 429
\* each time and was answered by the paid upstream.
C22_Witness ==
    /\ request.pc = "done"
    /\ request.via = "upstream"
    /\ request.calls = MAX_REROUTE_ATTEMPTS + 2
    /\ Cardinality(CallsOf(request, "rerouted")) = MAX_REROUTE_ATTEMPTS
    /\ \A i \in 1 .. Len(request.log) : request.log[i].status = 429

\* The request is in, or has been through, the wait-and-retry on the account
\* of its first forward.
WaitedOn(rq) == rq.pc \in {"sleeping", "retried"} \/ CallsOf(rq, "retried") # {}

\* C23: a request waits and retries at most once, only after a first answer
\* 429 whose Retry-After is known and at most 10 s, and the retry goes to the
\* (pool, account) of the first forward; a 429 on the retry is recorded (with
\* the 429 that the reroute records next, the pair's count goes up by two), and
\* only the 429s of rerouted forwards count as reroute attempts.
C23_CachePreserveOnce ==
    /\ [](/\ Cardinality(CallsOf(request, "retried"))
             + (IF request.pc \in {"sleeping", "retried"} THEN 1 ELSE 0) <= 1
          /\ WaitedOn(request)
             => /\ request.log[1].call = "initial"
                /\ request.log[1].status = 429
                /\ parseRetryAfter(request.header, request.log[1].at) # Undefined
                /\ parseRetryAfter(request.header, request.log[1].at)[1]
                      <= CACHE_PRESERVE_WAIT_MAX_S
          /\ request.pc = "retried"
             => /\ request.pool = request.log[1].pool
                /\ request.account = request.log[1].account
          /\ \A i \in CallsOf(request, "retried") :
                /\ i = 2
                /\ request.log[i].pool = request.log[1].pool
                /\ request.log[i].account = request.log[1].account
          /\ request.attempt
                = Cardinality({i \in CallsOf(request, "rerouted") :
                                  request.log[i].status = 429}))
    /\ [][(/\ request.pc = "retried"
           /\ Len(request'.log) = 2
           /\ request'.log[2].status = 429
           /\ request.header = [kind |-> "num", val |-> 3])
          => /\ MapHas(entries', <<request.pool, request.account>>)
             /\ entries'[<<request.pool, request.account>>].consecutive429
                   = Count429(entries, <<request.pool, request.account>>) + 2]_vars

\* After 429 on the first forward and 429 on the retry of the same account,
\* the request made four rerouted forwards and the last one was answered 200.
C23_Witness ==
    /\ request.pc = "done"
    /\ request.via = "local"
    /\ request.status = 200
    /\ Len(request.log) = MAX_REROUTE_ATTEMPTS + 2
    /\ request.log[2].call = "retried"
    /\ request.log[2].status = 429
    /\ Cardinality(CallsOf(request, "rerouted")) = MAX_REROUTE_ATTEMPTS

\* C24 as stated: when an adapter answers a forward of a routed request with
\* 403, the pair gets the 24 h entry of record403 (exhausted, until = now +
\* 24 h, consecutive429 = 0), the 403 is not handed to the client as the
\* answer, and no success is recorded for the pair.
C24_ForbiddenDisablesPair ==
    [][(/\ request.pc \in {"initial", "retried", "rerouted"}
        /\ Len(request'.log) = Len(request.log) + 1
        /\ request'.log[Len(request'.log)].status = 403)
       => /\ MapHas(entries', <<request.pool, request.account>>)
          /\ entries'[<<request.pool, request.account>>]
                = [until |-> now + FORBIDDEN_COOLDOWN_MS, exhausted |-> TRUE,
                   consecutive429 |-> 0]
          /\ ~(request'.pc = "done" /\ request'.via = "local")]_vars

(***************************************************************************)
(* Further claims about the cooldown entries as the router keeps them      *)
(* (SpecRouter).                                                           *)
(***************************************************************************)
QuotaPools == {"anthropic", "codex", "gemini", "antigravity"}

\* The entries of every pair but pa are in after as they are in before.
OthersUnchanged(before, after, pa) ==
    \A pb \in (QuotaPools \X Accounts) \ {pa} :
        /\ MapHas(after, pb) <=> MapHas(before, pb)
        /\ MapHas(before, pb) => after[pb] = before[pb]

\* C25: record429, record403 and recordSuccess on one (pool, account) leave
\* the entry of every other pair as it was; a 429 recorded on (gemini, a) does
\* not make (antigravity, a) cool down, and the reroute after a 429 of
\* (gemini, 0) selects (antigravity, 0) when that pair is available and was
\* not cooling down.
C25_CooldownPerPair ==
    /\ \A pa \in QuotaPools \X Accounts :
          /\ \A ra \in CdRetryAfter :
                OthersUnchanged(entries, record429(entries, pa[1], pa[2], ra, now), pa)
          /\ OthersUnchanged(entries, record403(entries, pa[1], pa[2], now), pa)
          /\ OthersUnchanged(entries, recordSuccess(entries, pa[1], pa[2]), pa)
    /\ \A a \in Accounts, ra \in CdRetryAfter :
          isCoolingDown(record429(entries, "gemini", a, ra, now), "antigravity", a, now).ret
             = isCoolingDown(entries, "antigravity", a, now).ret
    /\ (/\ focus = "google"
        /\ config.google
        /\ isAvailable(store, "antigravity", 0)
        /\ ~isCoolingDown(entries, "antigravity", 0, now).ret)
       => \A t \in RtThreads, ra \in CdRetryAfter :
             LET r == rerouteAfter429(Aff, entries, store, config, focus, "gemini", 0,
                                      ra, t, now)
             IN  /\ r.found
                 /\ r.res.pool = "antigravity"
                 /\ r.res.account = 0

\* A reroute after a 429 of (gemini, 0) returned (antigravity, 0): gemini has
\* a cooldown entry, antigravity has none.
C25_Witness ==
    /\ last.op = "rerouteAfter429"
    /\ last.found
    /\ last.pool = "antigravity"
    /\ last.account = 0
    /\ MapHas(entries, <<"gemini", 0>>)
    /\ ~MapHas(entries, <<"antigravity", 0>>)

(***************************************************************************)
(* Further claims about the affinity store (SpecAffinity).                 *)
(***************************************************************************)
\* What C26 says of the entry stored under key(threadId, ampProvider).
TtlOf(threadId, ampProvider) ==
    LET k == key(threadId, ampProvider)
        entry == map[k]
        peeked == peek(Aff, threadId, ampProvider, now)
        got == get(Aff, threadId, ampProvider, now)
        swept == sweep(Aff, now)
    IN  IF ~isExpired(entry, now)
        THEN /\ peeked.found
             /\ peeked.aff = Aff
             /\ got.found
             /\ got.aff.counts = counts
             /\ got.aff.map = MapSet(map, k, [entry EXCEPT !.assignedAt = now])
             /\ ~isExpired(got.aff.map[k], now + TTL_MS)
             /\ MapHas(swept.map, k)
             /\ swept.map[k] = entry
        ELSE /\ ~peeked.found
             /\ ~got.found
             /\ got.aff = peeked.aff
             /\ peeked.aff.map = MapDelete(map, k)
             /\ \A pa \in AffPairs :
                   activeCount(peeked.aff.counts, pa[1], pa[2])
                      = activeCount(counts, pa[1], pa[2])
                        - (IF pa = <<entry.pool, entry.account>> THEN 1 ELSE 0)
             /\ peek(peeked.aff, threadId, ampProvider, now).aff = peeked.aff
             /\ ~MapHas(swept.map, k)
             /\ sweep(peeked.aff, now) = swept

C27_RefreshAtMostTwice ==
    /\ [](\A n \in OaTasks :
             /\ tasks[n].tries <= 2
             /\ tasks[n].pc = "refresh" => tasks[n].tries = 1
             /\ tasks[n].pc = "sleep" => tasks[n].tries = 1
             /\ tasks[n].pc = "retry" => tasks[n].tries = 2)
    /\ [][\A n \in OaTasks :
             /\ (tasks[n].pc = "refresh" /\ tasks'[n].pc = "sleep") => store' = store
             /\ (tasks[n].pc = "sleep" /\ tasks'[n] # tasks[n])
                => /\ tasks'[n] = [tasks[n] EXCEPT !.pc = "retry", !.tries = 2]
                   /\ store' = store
             /\ (tasks[n].pc = "retry" /\ tasks'[n] # tasks[n])
                => /\ tasks'[n].pc \notin {"retry", "sleep"}
                   /\ tasks'[n].pc = "refresh"
                      => /\ n = "sweep"
                         /\ <<tasks'[n].provider, tasks'[n].account>>
                               # <<tasks[n].provider, tasks[n].account>>
                   /\ n \in OaRequests
                      => /\ tasks'[n].pc = "idle"
                         /\ tasks'[n].ret \in {"null", "token"}
                         /\ tasks'[n].ret = "null" => store' = store]_vars

\* With no login ever started, a request's token() call has returned no
\* token: both of its exchanges failed, and the credentials are as at the start.
C27_Witness ==
    /\ \E n \in OaRequests : tasks[n].pc = "idle" /\ tasks[n].ret = "null"
    /\ \A p \in DOMAIN meter.serial : meter.serial[p] = 0
    /\ meter.issued = 0
    /\ store[<<"codex", 1>>] = [refreshToken |-> "ru", expiresAt |-> 0]

\* The stored rows the sweep has to refresh at time t, and the place of a row
\* in the order in which refreshAll walks the table.
DueRows(st, t) == {k \in DOMAIN st : st[k].expiresAt - t <= TOKEN_EXPIRY_BUFFER_MS}

SweepRank(k) ==
    (CHOOSE i \in 1 .. Len(providerConfigs) : providerConfigs[i] = k[1]) * (Cardinality(Accounts) + 1)
    + k[2]

\* C28 as stated: a sweep attempts a refresh exchange for every stored
\* (provider, account) whose expiresAt - now is at most 5 minutes, tokens
\* that have not expired yet included; so a sweep started now awaits first
\* the exchange of the first such row.
C28_SweepRefreshesDueRows ==
    (tasks["sweep"].pc = "idle" /\ DueRows(store, now) # {}) =>
        LET b == refreshAll([Bundle("sweep") EXCEPT
                                !.task = [NoTask EXCEPT !.pc = "sweeping", !.at = now]],
                            store, now)
            first == CHOOSE k \in DueRows(store, now) :
                        \A j \in DueRows(store, now) : SweepRank(k) <= SweepRank(j)
        IN  /\ b.task.pc = "refresh"
            /\ <<b.task.provider, b.task.account>> = first

(***************************************************************************)
(* Claims about login() (SpecLogin).                                       *)
(***************************************************************************)
\* The requests to the callback path whose state is not the one generated.
Mismatched == {cb \in Callbacks : cb.path = callbackPath /\ cb.state # signin.state}

\* The exchange is sent only by a login that is waiting, on a callback with
\* the generated state; the credentials are written only by a login whose one
\* exchange was answered; a login that failed at its callback has sent no
\* exchange and written nothing.
ExchangeOnlyAfterMatch ==
    /\ [](signin.pc = "waiting"
          => \A cb \in Callbacks :
                callbackFetch(cb, signin.state) = "resolve" => cb.state = signin.state)
    /\ [](signin.outcome \in {"csrf", "oauth error", "missing", "timed out"}
          => signin.exchanges = 0)
    /\ [][/\ signin'.exchanges > signin.exchanges
             => /\ signin.pc = "waiting"
                /\ signin'.pc = "exchanging"
                /\ signin'.reply = "Authentication Successful"
          /\ store' # store => signin.pc = "exchanging" /\ signin.exchanges = 1
          /\ signin'.outcome \in {"csrf", "oauth error", "missing", "timed out"}
             => store' = store]_vars

\* C29 as stated: the exchange and the save happen only after a callback
\* with the generated state, and every callback with a different state ends
\* the login with the possible-CSRF error, no exchange made, nothing saved.
C29_MismatchIsCsrf ==
    /\ [](signin.pc = "waiting"
          => \A cb \in Mismatched : callbackFetch(cb, signin.state) = "csrf")
    /\ ExchangeOnlyAfterMatch

\* C29 amended: the exchange and the save happen only after a callback with
\* the generated state; every callback with a different state ends the login
\* with an error, no exchange made, nothing saved: the possible-CSRF error
\* when the callback carries a code, a state and no error parameter, else the
\* error of the error parameter or of the missing code or state.
C29_MismatchFailsLogin ==
    /\ [](signin.pc = "waiting"
          => \A cb \in Mismatched :
                /\ callbackFetch(cb, signin.state) \in {"csrf", "oauth error", "missing"}
                /\ (cb.error = "" /\ cb.code # "" /\ cb.state # "")
                   => callbackFetch(cb, signin.state) = "csrf")
    /\ ExchangeOnlyAfterMatch

\* The second login of a behaviour ended with the possible-CSRF error, no
\* exchange made.
C29_Witness ==
    /\ signin.started = 2
    /\ signin.pc = "done"
    /\ signin.outcome = "csrf"
    /\ signin.exchanges = 0
    /\ signin.reply = "Authentication Failed"

\* The stored accounts of the provider whose email or accountId is that of
\* the new identity, and the slot after the highest one in use.
Matching(raw) ==
    {k \in DOMAIN store :
        /\ k[1] = LoginProvider
        /\ \/ raw.email # "" /\ store[k].email = raw.email
           \/ raw.accountId # "" /\ store[k].accountId = raw.accountId}

SlotAfterLast ==
    LET used == {k[2] : k \in {x \in DOMAIN store : x[1] = LoginProvider}}
    IN  IF used = {} THEN 0 ELSE (CHOOSE m \in used : \A x \in used : x <= m) + 1

\* What C30 says of a login whose exchange is answered with raw.
LoginWrites(raw) ==
    LET r == loginSave(store, LoginProvider, raw, signin.started)
        k == <<LoginProvider, r.account>>
    IN  IF raw.refresh_token = "" /\ Matching(raw) = {}
        THEN /\ ~r.saved
             /\ r.error = "no refresh token"
             /\ r.store = store
        ELSE /\ r.saved
             /\ k \in (IF Matching(raw) # {} THEN Matching(raw)
                       ELSE {<<LoginProvider, SlotAfterLast>>})
             /\ Matching(raw) = {} => ~MapHas(store, k)
             /\ DOMAIN r.store = DOMAIN store \cup {k}
             /\ \A j \in DOMAIN store \ {k} : r.store[j] = store[j]
             /\ r.store[k].email = raw.email
             /\ r.store[k].accountId = raw.accountId
             /\ r.store[k].refreshToken
                   = (IF raw.refresh_token # "" THEN raw.refresh_token
                      ELSE store[k].refreshToken)

\* C30: a successful login writes one slot of its provider, that of a stored
\* account with the email or the accountId of the new identity when there is
\* one, else the slot after the highest in use (0 when none); no other slot
\* changes; without a refresh token in the response the one stored in the
\* slot is kept, and when the slot has none the login fails and saves nothing.
C30_LoginWritesOneSlot ==
    /\ [](\A raw \in TokenResponses : raw.ok => LoginWrites(raw))
    /\ [][store' # store
          => /\ signin'.outcome = "saved"
             /\ \E raw \in TokenResponses :
                   /\ raw.ok
                   /\ store' = loginSave(store, LoginProvider, raw, signin.started).store]_vars

\* Two logins were saved: one of a new identity under slot 3, after the
\* accounts 0 and 2, and one of the identity of account 0, which kept the
\* refresh token stored there.
C30_Witness ==
    /\ signin.outcome = "saved"
    /\ MapHas(store, <<LoginProvider, 3>>)
    /\ MapHas(store, <<LoginProvider, 0>>)
    /\ store[<<LoginProvider, 0>>].accessToken > 0
    /\ store[<<LoginProvider, 0>>].refreshToken = "r0"

(***************************************************************************)
(* C31.  tryEndpoints contacts daily, autopush, prod in this order; every   *)
(* endpoint before the last one contacted ended with a status of 500 or    *)
(* more or a connection error; a response below 500 ends the call and is   *)
(* the one returned; when all three failed the call returns 502.           *)
(***************************************************************************)
Failed(outcome) == outcome = ConnectError \/ outcome >= 500

C31_EndpointsInOrder ==
    /\ Len(probe.contacted) <= Len(endpoints)
    /\ \A i \in 1..Len(probe.contacted) :
          /\ probe.contacted[i].endpoint = endpoints[i]
          /\ i < Len(probe.contacted) => Failed(probe.contacted[i].outcome)
    /\ probe.pc = "awaiting" =>
          /\ probe.next = Len(probe.contacted) + 1
          /\ \A i \in 1..Len(probe.contacted) : Failed(probe.contacted[i].outcome)
    /\ probe.pc = "done" /\ probe.contacted # <<>> =>
          \E final \in {probe.contacted[Len(probe.contacted)].outcome} :
             IF Failed(final)
             THEN Len(probe.contacted) = Len(endpoints) /\ probe.status = 502
             ELSE probe.status = final

C31_Witness ==
    /\ probe.pc = "done"
    /\ Len(probe.contacted) = 3
    /\ probe.contacted[1].outcome = ConnectError
    /\ probe.contacted[2].outcome = 503
    /\ probe.status = 499

(***************************************************************************)
(* C32.  The reverse transcoder gives the function_call items the indices  *)
(* 0, 1, 2, ... in the order they are added, distinct call_ids have         *)
(* distinct indices, and a function_call_arguments.delta chunk carries the *)
(* index allocated to its call_id, never the index of another call.        *)
(***************************************************************************)
FunctionCallsAdded(fed) ==
    Cardinality({i \in 1..Len(fed) : /\ fed[i].type = "response.output_item.added"
                                     /\ fed[i].item = "function_call"})

C32_ToolCallIndices ==
    transcoder.pc = "open" =>
       \A data \in CodexEvents :
          \E r \in {transformer(transcoder.state, data)} :
             \E ids \in {transcoder.state.toolCallIds} :
                /\ data.type = "response.output_item.added" /\ data.item = "function_call" =>
                      /\ r.out.delta.tool_call = FunctionCallsAdded(transcoder.fed)
                      /\ r.state.toolCallIds[data.call_id] = r.out.delta.tool_call
                /\ \A c1, c2 \in DOMAIN r.state.toolCallIds :
                      c1 # c2 => r.state.toolCallIds[c1] # r.state.toolCallIds[c2]
                /\ data.type = "response.function_call_arguments.delta" /\ r.out # Nothing =>
                      /\ MapHas(ids, data.call_id) => r.out.delta.tool_call = ids[data.call_id]
                      /\ \A other \in DOMAIN ids \ {data.call_id} :
                            r.out.delta.tool_call # ids[other]

(***************************************************************************)
(* C33.  The stream of the reverse transcoder has no event: line, and its  *)
(* only data: [DONE] record is the last record, written when the stream    *)
(* ends.                                                                   *)
(***************************************************************************)
IsEventLine(line) == line.kind = "line" /\ line.text = "event: x"

DoneRecords(out) == {i \in 1..Len(out) : out[i] = doneRecord}

C33_OneDoneAtEnd ==
    /\ \A i \in 1..Len(transcoder.out) :
          \A j \in 2..Len(transcoder.out[i]) : ~IsEventLine(transcoder.out[i][j])
    /\ transcoder.pc = "open" => DoneRecords(transcoder.out) = {}
    /\ transcoder.pc = "closed" => DoneRecords(transcoder.out) = {Len(transcoder.out)}

(***************************************************************************)
(* C34.  In every state of the affinity store the count stored for a       *)
(* (pool, account) is the number of entries of the map, expired or not,    *)
(* that are pinned to this pair, and only counts of 1 or more are stored.  *)
(***************************************************************************)
PinnedTo(pool, account) ==
    {k \in DOMAIN map : map[k].pool = pool /\ map[k].account = account}

C34_CountIsPinnedEntries ==
    /\ \A pa \in AffPairs :
          /\ activeCount(counts, pa[1], pa[2]) = Cardinality(PinnedTo(pa[1], pa[2]))
          /\ MapHas(counts, countKey(pa[1], pa[2])) <=> PinnedTo(pa[1], pa[2]) # {}
    /\ \A k \in DOMAIN counts :
          /\ counts[k] >= 1
          /\ \E pa \in AffPairs : k = countKey(pa[1], pa[2])

\* Two threads on one pair, one of them past its TTL and not yet evicted,
\* after a third pair lost its only thread.
C34_Witness ==
    /\ \E pa \in AffPairs :
          /\ activeCount(counts, pa[1], pa[2]) = 2
          /\ \E k \in PinnedTo(pa[1], pa[2]) : isExpired(map[k], now)
          /\ \E k \in PinnedTo(pa[1], pa[2]) : ~isExpired(map[k], now)
    /\ Cardinality(DOMAIN counts) = 1
    /\ last.op = "set"

(***************************************************************************)
(* C35.  A 429 answer of an adapter raises consecutive429 of its (pool,    *)
(* account) once: the step that handles the answer to a rerouted forward   *)
(* or to the first forward raises the count of the answering pair by at    *)
(* most 1, and the step that handles the answer to the cache-preserve      *)
(* retry by at most 2 (the first answer and the retry's).                  *)
(***************************************************************************)
Answering == <<request.pool, request.account>>

C35_Each429CountedOnce ==
    [][/\ request.pc \in {"initial", "rerouted"} =>
             Count429(entries', Answering) <= Count429(entries, Answering) + 1
       /\ request.pc = "retried" =>
             Count429(entries', Answering) <= Count429(entries, Answering) + 2]_vars

(***************************************************************************)
(* C36.  record429 never shortens an active cooldown: when the entry of a  *)
(* pair has not expired and has until = u, the entry after record429 has   *)
(* until >= u, whatever the Retry-After, also for an entry that is         *)
(* exhausted or was set by record403.                                      *)
(***************************************************************************)
C36_Record429KeepsUntil ==
    \A pa \in CdPairs, retryAfterSeconds \in CdRetryAfter :
       MapHas(entries, pa) /\ now < entries[pa].until =>
          record429(entries, pa[1], pa[2], retryAfterSeconds, now)[pa].until
             >= entries[pa].until

(***************************************************************************)
(* C37.  A pair that is marked exhausted is returned by no routing         *)
(* decision before the until of the mark has passed, with two requests     *)
(* being handled at once: when a pair carries a live exhausted mark        *)
(* before a step of a handler, neither routeRequest nor rerouteAfter429    *)
(* (after the 429 of another pair) returns this pair right after the step, *)
(* unless the clock has reached until.                                     *)
(***************************************************************************)
LiveExhausted(pa) ==
    MapHas(entries, pa) /\ entries[pa].exhausted /\ now < entries[pa].until

Returns(res, pa) == res.handler # "null" /\ res.pool = pa[1] /\ res.account = pa[2]

C37_ExhaustedNeverRouted ==
    [][\A pa \in PairsOf(focus) :
          LiveExhausted(pa) /\ now' < entries[pa].until =>
             /\ \A t \in CcThreads \cup {""} :
                   \E r \in {routeRequest([map |-> map', counts |-> counts'], entries',
                                          store', config', focus, t, now')} :
                      ~Returns(r.res, pa)
             /\ \A t \in CcThreads \cup {""}, failed \in PairsOf(focus) \ {pa},
                   ans \in CcAnswers :
                   \E r \in {rerouteAfter429([map |-> map', counts |-> counts'], entries',
                                             store', config', focus, failed[1], failed[2],
                                             parseRetryAfter(ans.header, now'), t, now')} :
                      r.found => ~Returns(r.res, pa)]_vars

(***************************************************************************)
(* C38.  When a handler returns the response of an adapter for a request   *)
(* with thread id T, the affinity entry of (T, clientProvider) names the   *)
(* (pool, account) that produced the response, also when another request   *)
(* with the same T is being handled.                                       *)
(***************************************************************************)
ReturnsLocal ==
    /\ request.pc # "done"
    /\ request'.pc = "done"
    /\ request'.via = "local"
    /\ parked' = parked

C38_ResponsePairIsPinned ==
    [][ReturnsLocal /\ request.thread # "" =>
          /\ MapHas(map', key(request.thread, focus))
          /\ map'[key(request.thread, focus)].pool = request'.pool
          /\ map'[key(request.thread, focus)].account = request'.account]_vars

(***************************************************************************)
(* C39.  After remove(provider, account) the credential record stays       *)
(* absent until a login saves it: a record that is absent appears again    *)
(* only in the step in which a login() settles, and never through a token  *)
(* refresh that was in flight when the record was removed.                 *)
(***************************************************************************)
Refreshing(k) ==
    {n \in OaTasks : /\ tasks[n].pc \in {"refresh", "sleep", "retry"}
                     /\ <<tasks[n].provider, tasks[n].account>> = k}

C39_RemovedStaysAbsent ==
    [][\A k \in OaPairs :
          ~MapHas(store, k) /\ MapHas(store', k) =>
             /\ logins' # logins
             /\ Refreshing(k) = {}]_vars

(***************************************************************************)
(* C40.  The records the streaming transform emits do not depend on the    *)
(* cutting of the input into chunks: at the end of the stream they are     *)
(* the records emitted for the whole input delivered as one chunk, which   *)
(* are the records of the input in order, a last record without           *)
(* terminator included; before the end they are a prefix of these.         *)
(***************************************************************************)
AsOneChunk(raw) ==
    The({r.out \o flush(r.buffer) : r \in {transform(<<>>, raw)}})

IsPrefix(p, q) == Len(p) <= Len(q) /\ p = SubSeq(q, 1, Len(p))

C40_ChunkingIndependent ==
    \E one \in {AsOneChunk(feed.whole)} :
       /\ feed.pc = "open" => IsPrefix(feed.out, one)
       /\ feed.pc = "closed" => feed.out = one
       /\ feed.pc # "idle" => one = enqueueAll(parse(feed.whole), 1)

\* Two records three line ends apart, the second without terminator,
\* delivered in three chunks or more.
C40_Witness ==
    /\ feed.pc = "closed"
    /\ feed.chunks >= 3
    /\ Len(feed.out) = 2
    /\ feed.whole = <<"data:", "a", LF, LF, LF, "data:", "a">>

====
